---- MODULE Spec2Model ----
(***************************************************************************)
(* Model of the university scraper back end: the University collection,   *)
(* the scraping routes of backend/routes/scrape.js with their in-memory   *)
(* registry activeScrapingProcesses, and the create/update/delete routes  *)
(* of the universities router.                                            *)
(*                                                                         *)
(* Every route handler is an async function: each `await` of a storage    *)
(* call is an interleaving point.  A storage call takes effect in one     *)
(* step of its own; the synchronous code that runs when the await resumes *)
(* is a later step.  Where the resumed code touches nothing but the       *)
(* handler's own document it is folded into the storage step.             *)
(*                                                                         *)
(* Time is counted in hours.                                              *)
(***************************************************************************)
EXTENDS Integers, Sequences, FiniteSets, TLC

VARIABLES
    db,                       \* the University collection: id -> stored record
    activeScrapingProcesses,  \* the registry Map: key -> process handle
    reqs,                     \* the scrape requests: slot -> request
    procs,                    \* the external processes: start or bulk slot -> process handle
    now,                      \* the clock
    up,                       \* FALSE once the server process has exited
    ops                       \* the create/update/delete/seed operations: slot -> operation

vars == <<db, activeScrapingProcesses, reqs, procs, now, up, ops>>

----------------------------------------------------------------------------
(* Bounds of the model *)

MaxStart   == 3     \* start-scrape requests received
MaxStop    == 1     \* stop requests received
MaxStopAll == 1     \* stop-all requests received
MaxBulk    == 1     \* bulk requests received
MaxReqs    == 3     \* requests received in all
MaxTime    == 1     \* the clock stops here
MaxErrLen  == 501   \* longest stderr / spawn error text the external process produces
MaxOps     == 2     \* create/update/delete/seed operations received
NumNames   == 2     \* distinct names, and distinct urls, the callers use
NumSeed    == 2     \* entries of the seed list
MaxQueries   == 1    \* read requests answered
MaxQueryRecs == 2    \* records of the collection the read routes run over
MaxUniversities == 21  \* records of the collection the bulk route selects from

(* Program constants *)

HistoryCap  == 10    \* University.js: "Keep only last 10 scraping history records"
OneHour     == 1     \* scrape.js: 60 * 60 * 1000 ms, in hours
SevenDays   == 168   \* University.js: 7 * 24 * 60 * 60 * 1000 ms, in hours
ErrorCap    == 500   \* the bound the logger applies: substring(0, 500)
DefaultPriority == 5 \* University.js: scraping_priority default
BulkLimit   == 20    \* scrape.js: .limit(20) of the scrape-all selection

NoDate == -1         \* a null Date
NoProc == 0          \* no process

Ids == {1}           \* the university ids of the collection

ShortErrLen == 18    \* a short stderr: "connection timeout"
SpawnErrLen == 20    \* the message of a spawn error: "spawn python3 ENOENT"
ErrLens == {ShortErrLen, MaxErrLen}

----------------------------------------------------------------------------
(* Strings: an error text is its origin and its length. *)

NullMsg        == [text |-> "null", len |-> 0]
StoppedByUser  == [text |-> "Stopped by user", len |-> 15]
StoppedByAdmin == [text |-> "Stopped by admin", len |-> 16]
Stderr(n)      == [text |-> "stderr", len |-> n]
SpawnError(n)  == [text |-> "spawn error", len |-> n]
SaveErrorMsg   == [text |-> "VersionError", len |-> 60]

----------------------------------------------------------------------------
(* Sequences *)

(* Array.prototype.slice(-n) *)
SliceLast(s, n) ==
    IF Len(s) <= n THEN s ELSE SubSeq(s, Len(s) - n + 1, Len(s))

Last(s) == s[Len(s)]

----------------------------------------------------------------------------
(* The University model (backend/models/University.js) *)

(* scrapingHistorySchema: the status values of a history entry *)
HistoryStatus(status) ==
    IF status = "completed" THEN "success"
    ELSE IF status = "failed" THEN "failed"
    ELSE "partial"

(* A history entry: its status and error_message (the timestamp and the     *)
(* extraction counts play no part in the routes modelled).                  *)
HistoryEntry(status, errorMessage) ==
    [status |-> status, error_message |-> errorMessage]

DataTypes == {"admission_dates", "criteria", "fee_structure", "scholarships"}

(* A stored record as the schema defaults create it. *)
NewRecord(name, url) ==
    [name |-> name, url |-> url, is_active |-> TRUE,
     data |-> [t \in DataTypes |-> <<>>],
     data_last_updated |-> [t \in DataTypes |-> NoDate],
     scraping_status |-> "pending",
     scraping_priority |-> DefaultPriority,
     last_scraped |-> NoDate,
     next_scrape_scheduled |-> NoDate,
     scraping_history |-> <<>>,
     v |-> 0]

(* University.findById: a document hydrated from the stored record.  Besides  *)
(* the fields the document tracks what it has to write back: the scalar paths *)
(* modified (mod), whether scraping_history was pushed to or reassigned (arr), *)
(* the pushed entries, and whether a save is in flight.                       *)
Hydrate(rec) ==
    [scraping_status |-> rec.scraping_status,
     last_scraped |-> rec.last_scraped,
     next_scrape_scheduled |-> rec.next_scrape_scheduled,
     scraping_history |-> rec.scraping_history,
     v |-> rec.v,
     mod |-> {}, arr |-> "clean", pushed |-> <<>>, saving |-> FALSE]

NoDoc == [none |-> TRUE]

(* A method that stamps last_scraped and next_scrape_scheduled whatever the  *)
(* status.                                                                    *)
updateScrapingStatus_AlwaysStamp(doc, status, errorMessage, t) ==
    LET entry   == HistoryEntry(HistoryStatus(status), errorMessage)
        pushedH == Append(doc.scraping_history, entry)
        over    == Len(pushedH) > HistoryCap
    IN [doc EXCEPT
          !.scraping_status = status,
          !.last_scraped = t,
          !.next_scrape_scheduled = t + SevenDays,
          !.mod = @ \cup (IF status # doc.scraping_status THEN {"scraping_status"} ELSE {})
                    \cup {"last_scraped", "next_scrape_scheduled"},
          !.scraping_history = IF over THEN SliceLast(pushedH, HistoryCap) ELSE pushedH,
          !.arr = IF over \/ doc.arr = "set" THEN "set" ELSE "push",
          !.pushed = IF over \/ doc.arr = "set" THEN <<>> ELSE Append(@, entry)]

(* universitySchema.methods.updateScrapingStatus, up to the call of save():   *)
(* the document after the assignments, the push and the slice.                *)
updateScrapingStatus(doc, status, errorMessage, t) ==
    LET entry   == HistoryEntry(HistoryStatus(status), errorMessage)
        pushedH == Append(doc.scraping_history, entry)
        over    == Len(pushedH) > HistoryCap
    IN [doc EXCEPT
          !.scraping_status = status,
          !.last_scraped = IF status = "completed" THEN t ELSE @,
          !.next_scrape_scheduled = IF status = "completed" THEN t + SevenDays ELSE @,
          !.mod = @ \cup (IF status # doc.scraping_status THEN {"scraping_status"} ELSE {})
                    \cup (IF status = "completed"
                          THEN {"last_scraped", "next_scrape_scheduled"} ELSE {}),
          !.scraping_history = IF over THEN SliceLast(pushedH, HistoryCap) ELSE pushedH,
          !.arr = IF over \/ doc.arr = "set" THEN "set" ELSE "push",
          !.pushed = IF over \/ doc.arr = "set" THEN <<>> ELSE Append(@, entry)]

(* document.save(): the update sent carries the modified paths only.  A       *)
(* reassigned array is sent whole, guarded by the version the document was    *)
(* read at; pushed entries are sent as $push and need no guard.  Both         *)
(* increment the version.                                                     *)
SaveFails(rec, doc) == doc.arr = "set" /\ rec.v # doc.v

SaveWrites(rec, doc) ==
    [rec EXCEPT
       !.scraping_status = IF "scraping_status" \in doc.mod THEN doc.scraping_status ELSE @,
       !.last_scraped = IF "last_scraped" \in doc.mod THEN doc.last_scraped ELSE @,
       !.next_scrape_scheduled =
           IF "next_scrape_scheduled" \in doc.mod THEN doc.next_scrape_scheduled ELSE @,
       !.scraping_history =
           IF doc.arr = "set" THEN doc.scraping_history
           ELSE IF doc.arr = "push" THEN @ \o doc.pushed
           ELSE @,
       !.v = IF doc.arr = "clean" THEN @ ELSE @ + 1]

(* The stored record after the save of doc reaches storage. *)
Save(rec, doc) == IF SaveFails(rec, doc) THEN rec ELSE SaveWrites(rec, doc)

(* The document once its save has settled: clean on success, as it was on a   *)
(* VersionError.                                                              *)
Settled(rec, doc) ==
    IF SaveFails(rec, doc)
    THEN [doc EXCEPT !.saving = FALSE]
    ELSE [doc EXCEPT !.mod = {}, !.arr = "clean", !.pushed = <<>>, !.saving = FALSE,
                     !.v = IF doc.arr = "clean" THEN @ ELSE @ + 1]

----------------------------------------------------------------------------
(* The registry: activeScrapingProcesses, a Map from key to process handle *)

MapHas(m, k) == k \in DOMAIN m

MapSet(m, k, val) == [x \in (DOMAIN m) \cup {k} |-> IF x = k THEN val ELSE m[x]]

MapDelete(m, k) == [x \in (DOMAIN m) \ {k} |-> m[x]]

EmptyMap == [x \in {} |-> NoProc]

(* Request slots: the start requests, the stop requests, the stop-all       *)
(* requests, the bulk requests.  A request takes the lowest free slot of    *)
(* its kind; the process a start or bulk request spawns has the number of   *)
(* its slot.                                                                 *)
StartSlots   == 1..MaxStart
StopSlots    == (MaxStart + 1)..(MaxStart + MaxStop)
StopAllSlots == (MaxStart + MaxStop + 1)..(MaxStart + MaxStop + MaxStopAll)
BulkSlots    == (MaxStart + MaxStop + MaxStopAll + 1)..(MaxStart + MaxStop + MaxStopAll + MaxBulk)
ReqIx  == 1..(MaxStart + MaxStop + MaxStopAll + MaxBulk)
ProcIx == StartSlots
BulkProcIx == BulkSlots

Idle == [op |-> "idle", id |-> 0, pc |-> "idle", doc |-> [none |-> TRUE], res |-> 0, proc |-> NoProc]

FreeSlot(rs, slots) ==
    IF Cardinality({r \in ReqIx : rs[r] # Idle}) < MaxReqs /\ \E r \in slots : rs[r] = Idle
    THEN CHOOSE r \in slots : rs[r] = Idle /\ \A q \in slots : q < r => rs[q] # Idle
    ELSE 0

NoProcess == [id |-> 0, doc |-> [none |-> TRUE], st |-> "none", sig |-> FALSE,
              errSave |-> FALSE, closeSave |-> FALSE,
              end |-> "none", err |-> [text |-> "null", len |-> 0]]

----------------------------------------------------------------------------
(* Initial contents of the collection: records the routes below produce.     *)

StartedEntry == HistoryEntry("partial", NullMsg)
SuccessEntry == HistoryEntry("success", NullMsg)
StoppedEntry == HistoryEntry("partial", StoppedByUser)
FailedEntry  == HistoryEntry("failed", Stderr(0))

RECURSIVE Repeat(_, _)
Repeat(s, n) == IF n = 0 THEN <<>> ELSE s \o Repeat(s, n - 1)

(* A record after `stops` scrapes that were stopped and then `runs` scrapes  *)
(* that completed at time 0.                                                  *)
ScrapedRecord(id, stops, runs) ==
    LET h == Repeat(<<StartedEntry, StoppedEntry, FailedEntry>>, stops)
             \o Repeat(<<StartedEntry, SuccessEntry>>, runs)
    IN [NewRecord(id, id) EXCEPT
          !.scraping_status = IF runs > 0 THEN "completed"
                              ELSE IF stops > 0 THEN "failed" ELSE "pending",
          !.last_scraped = IF runs > 0 THEN 0 ELSE NoDate,
          !.next_scrape_scheduled = IF runs > 0 THEN SevenDays ELSE NoDate,
          !.scraping_history = SliceLast(h, HistoryCap),
          !.v = Len(h)]

(* A record whose scrape was running when the server was restarted. *)
OrphanRecord(id) ==
    [NewRecord(id, id) EXCEPT
          !.scraping_status = "scraping",
          !.scraping_history = <<StartedEntry>>,
          !.v = 1]

InitialRecords(id) ==
    { NewRecord(id, id), OrphanRecord(id),
      ScrapedRecord(id, 3, 0), ScrapedRecord(id, 0, 5) }

OpIx == 1..MaxOps

NoOp == [op |-> "idle", pc |-> "idle", id |-> 0, name |-> 0, url |-> 0, res |-> 0]

Init ==
    /\ db \in {f \in [Ids -> UNION {InitialRecords(i) : i \in Ids}] :
                  \A i \in Ids : f[i] \in InitialRecords(i)}
    /\ activeScrapingProcesses = EmptyMap
    /\ reqs = [r \in ReqIx |-> Idle]
    /\ procs = [p \in ProcIx \cup BulkProcIx |-> NoProcess]
    /\ now = 0
    /\ up = TRUE
    /\ ops = [o \in OpIx |-> NoOp]

----------------------------------------------------------------------------
(* POST /api/scrape/university/:id  (scrape.js, router.post('/university/:id')) *)

UnknownIds == {0}            \* an id no record has
ReqIds == Ids \cup UnknownIds

Request(op, id, pc, doc) ==
    [op |-> op, id |-> id, pc |-> pc, doc |-> doc, res |-> 0, proc |-> NoProc]

(* A request once answered.  The document is dropped with the handler; the  *)
(* start route keeps the one its guards rejected, for the record.            *)
Respond(req, code) == [req EXCEPT !.pc = "done", !.res = code, !.doc = NoDoc]

(* The request arrives and University.findById reads the record. *)
StartRequest(id) ==
    /\ up
    /\ FreeSlot(reqs, StartSlots) # 0
    /\ reqs' = [reqs EXCEPT ![FreeSlot(reqs, StartSlots)] =
                  Request("start", id, "guard",
                          IF id \in DOMAIN db THEN Hydrate(db[id]) ELSE NoDoc)]
    /\ UNCHANGED <<db, activeScrapingProcesses, procs, now, up, ops>>

(* A cooldown test that also holds back a record stored as 'scraping'. *)
RecentlyScraped_OrScraping(doc, t) ==
    \/ doc.scraping_status = "scraping"
    \/ doc.last_scraped # NoDate /\ doc.last_scraped > t - OneHour

(* The cooldown test: last_scraped is set and later than one hour ago. *)
RecentlyScraped(doc, t) ==
    doc.last_scraped # NoDate /\ doc.last_scraped > t - OneHour

(* The guards with the cooldown test before the registry test. *)
StartGuardResult_CooldownFirst(doc, registry, id, t) ==
    IF doc = NoDoc THEN 404
    ELSE IF RecentlyScraped(doc, t) THEN 429
    ELSE IF MapHas(registry, id) THEN 409
    ELSE 0

(* The outcome of the guards: 404, 409, 429, or 0 when the request is accepted. *)
StartGuardResult(doc, registry, id, t) ==
    IF doc = NoDoc THEN 404
    ELSE IF MapHas(registry, id) THEN 409
    ELSE IF RecentlyScraped(doc, t) THEN 429
    ELSE 0

(* The guards inside the try block: a rejection runs the catch block's       *)
(* activeScrapingProcesses.delete before it is answered.                     *)
StartGuard_InsideTry(r) ==
    /\ up
    /\ r \in DOMAIN reqs
    /\ reqs[r].op = "start" /\ reqs[r].pc = "guard"
    /\ LET req  == reqs[r]
           code == StartGuardResult(req.doc, activeScrapingProcesses, req.id, now)
       IN /\ reqs' = [reqs EXCEPT ![r] =
                        IF code # 0 THEN [Respond(req, code) EXCEPT !.doc = req.doc]
                        ELSE [req EXCEPT
                                !.pc = "save",
                                !.doc = [updateScrapingStatus(req.doc, "scraping", NullMsg, now)
                                            EXCEPT !.saving = TRUE]]]
          /\ activeScrapingProcesses' =
                 IF code # 0 THEN MapDelete(activeScrapingProcesses, req.id)
                 ELSE activeScrapingProcesses
    /\ UNCHANGED <<db, procs, now, up, ops>>

(* The findById resumes: the guards, then updateScrapingStatus('scraping'),  *)
(* whose save is now in flight.                                              *)
StartGuard(r) ==
    /\ up
    /\ r \in DOMAIN reqs
    /\ reqs[r].op = "start" /\ reqs[r].pc = "guard"
    /\ LET req  == reqs[r]
           code == StartGuardResult(req.doc, activeScrapingProcesses, req.id, now)
       IN reqs' = [reqs EXCEPT ![r] =
                     IF code # 0 THEN [Respond(req, code) EXCEPT !.doc = req.doc]
                     ELSE [req EXCEPT
                             !.pc = "save",
                             !.doc = [updateScrapingStatus(req.doc, "scraping", NullMsg, now)
                                         EXCEPT !.saving = TRUE]]]
    /\ UNCHANGED <<db, activeScrapingProcesses, procs, now, up, ops>>

(* The save of the 'scraping' status reaches storage.  If it is rejected the  *)
(* catch block runs updateScrapingStatus('failed', error.message), whose save *)
(* is then in flight.                                                         *)
StartSave(r) ==
    /\ up
    /\ r \in DOMAIN reqs
    /\ reqs[r].op = "start" /\ reqs[r].pc = "save"
    /\ LET req     == reqs[r]
           rec     == db[req.id]
           settled == Settled(rec, req.doc)
       IN /\ db' = [db EXCEPT ![req.id] = Save(rec, req.doc)]
          /\ reqs' = [reqs EXCEPT ![r] =
                        IF SaveFails(rec, req.doc)
                        THEN [req EXCEPT
                                !.pc = "catchSave",
                                !.doc = [updateScrapingStatus(settled, "failed", SaveErrorMsg, now)
                                            EXCEPT !.saving = TRUE]]
                        ELSE [req EXCEPT !.pc = "spawn", !.doc = settled]]
    /\ UNCHANGED <<activeScrapingProcesses, procs, now, up, ops>>

(* A process handle: the university it scrapes, the document its callbacks   *)
(* close over, its state, whether SIGTERM was sent to it, which of its       *)
(* callbacks have a save in flight, how it ended ("exit0", "exit1",          *)
(* "spawnerror") and the error text captured from it.                        *)
Process(id, doc, st) ==
    [id |-> id, doc |-> doc, st |-> st, sig |-> FALSE,
     errSave |-> FALSE, closeSave |-> FALSE,
     end |-> "none", err |-> NullMsg]

SpawnOutcomes == {"running", "failed", "throws"}

(* The save resumes: spawn, activeScrapingProcesses.set, the callbacks are   *)
(* registered and the response is sent.  spawn either starts the process,    *)
(* fails with an 'error' event to come, or throws into the catch block.      *)
StartSpawn(r, outcome, n) ==
    /\ up
    /\ r \in DOMAIN reqs
    /\ reqs[r].op = "start" /\ reqs[r].pc = "spawn"
    /\ LET req == reqs[r]
       IN IF outcome = "throws"
          THEN /\ reqs' = [reqs EXCEPT ![r] =
                             [req EXCEPT
                                !.pc = "catchSave",
                                !.doc = [updateScrapingStatus(req.doc, "failed", SpawnError(n), now)
                                            EXCEPT !.saving = TRUE]]]
               /\ UNCHANGED <<activeScrapingProcesses, procs>>
          ELSE /\ procs' = [procs EXCEPT ![r] = Process(req.id, req.doc, outcome)]
               /\ activeScrapingProcesses' = MapSet(activeScrapingProcesses, req.id, r)
               /\ reqs' = [reqs EXCEPT ![r] = [Respond(req, 200) EXCEPT !.proc = r]]
    /\ UNCHANGED <<db, now, up, ops>>

(* The save of the catch block reaches storage and the handler resumes: the  *)
(* registry entry of the id is deleted and the request fails with 500.  A    *)
(* rejected save leaves the handler with the same 500 before the delete.     *)
StartCatch(r) ==
    /\ up
    /\ r \in DOMAIN reqs
    /\ reqs[r].op = "start" /\ reqs[r].pc = "catchSave"
    /\ LET req == reqs[r]
           rec == db[req.id]
       IN /\ db' = [db EXCEPT ![req.id] = Save(rec, req.doc)]
          /\ reqs' = [reqs EXCEPT ![r] =
                        IF SaveFails(rec, req.doc)
                        THEN Respond(req, 500)
                        ELSE [req EXCEPT !.pc = "catchEnd", !.doc = Settled(rec, req.doc)]]
    /\ UNCHANGED <<activeScrapingProcesses, procs, now, up, ops>>

StartCatchEnd(r) ==
    /\ up
    /\ r \in DOMAIN reqs
    /\ reqs[r].op = "start" /\ reqs[r].pc = "catchEnd"
    /\ activeScrapingProcesses' = MapDelete(activeScrapingProcesses, reqs[r].id)
    /\ reqs' = [reqs EXCEPT ![r] = Respond(reqs[r], 500)]
    /\ UNCHANGED <<db, procs, now, up, ops>>

----------------------------------------------------------------------------
(* The callbacks of the spawned process (scrape.js, scrapingProcess.on)      *)

ExitCodes == {0, 1}

(* What the 'close' callback does to its document: 'completed' on code 0,    *)
(* 'failed' with the captured stderr otherwise.                              *)
CloseUpdate(doc, code, scraperError, t) ==
    IF code = 0
    THEN updateScrapingStatus(doc, "completed", NullMsg, t)
    ELSE updateScrapingStatus(doc, "failed", scraperError, t)

(* A 'close' callback that spawns the scraper again after a non-zero exit.   *)
ProcClose_Retry(p, code, n) ==
    /\ up
    /\ p \in DOMAIN procs
    /\ procs[p].st = "running"
    /\ activeScrapingProcesses' =
          IF code = 0 THEN MapDelete(activeScrapingProcesses, procs[p].id)
          ELSE MapSet(activeScrapingProcesses, procs[p].id, p)
    /\ procs' = [procs EXCEPT ![p] =
                   [@ EXCEPT !.st = IF code = 0 THEN "closed" ELSE "running",
                             !.closeSave = TRUE,
                             !.end = IF code = 0 THEN "exit0" ELSE "exit1",
                             !.err = IF code = 0 THEN NullMsg ELSE Stderr(n),
                             !.doc = [CloseUpdate(@, code, Stderr(n), now)
                                        EXCEPT !.saving = TRUE]]]
    /\ UNCHANGED <<db, reqs, now, up, ops>>

(* The process ends with exit code `code` and n characters on stderr: the    *)
(* 'close' callback deletes the registry entry of the id and calls           *)
(* updateScrapingStatus on the document of its closure; the save is in       *)
(* flight.                                                                    *)
ProcClose(p, code, n) ==
    /\ up
    /\ p \in DOMAIN procs
    /\ procs[p].st = "running"
    /\ activeScrapingProcesses' = MapDelete(activeScrapingProcesses, procs[p].id)
    /\ procs' = [procs EXCEPT ![p] =
                   [@ EXCEPT !.st = "closed",
                             !.closeSave = TRUE,
                             !.end = IF code = 0 THEN "exit0" ELSE "exit1",
                             !.err = IF code = 0 THEN NullMsg ELSE Stderr(n),
                             !.doc = [CloseUpdate(@, code, Stderr(n), now)
                                        EXCEPT !.saving = TRUE]]]
    /\ UNCHANGED <<db, reqs, now, up, ops>>

(* The handle once a save of one of its callbacks has settled; the closure  *)
(* and its document are unreachable when no callback is left to run.         *)
AfterCallback(proc, doc) ==
    IF proc.st = "closed" /\ ~proc.errSave /\ ~proc.closeSave
    THEN [proc EXCEPT !.doc = NoDoc]
    ELSE [proc EXCEPT !.doc = doc]

(* The save of a 'close' callback reaches storage; a rejection is caught and *)
(* logged.                                                                    *)
CloseSave(p) ==
    /\ up
    /\ p \in DOMAIN procs
    /\ procs[p].closeSave
    /\ LET rec == db[procs[p].id]
       IN /\ db' = [db EXCEPT ![procs[p].id] = Save(rec, procs[p].doc)]
          /\ procs' = [procs EXCEPT ![p] =
                         AfterCallback([@ EXCEPT !.closeSave = FALSE],
                                       Settled(rec, procs[p].doc))]
    /\ UNCHANGED <<activeScrapingProcesses, reqs, now, up, ops>>

(* The 'error' event of a spawn that failed: the callback deletes the        *)
(* registry entry and records 'failed' with error.message (n characters).    *)
ProcError(p, n) ==
    /\ up
    /\ p \in DOMAIN procs
    /\ procs[p].st = "failed"
    /\ activeScrapingProcesses' = MapDelete(activeScrapingProcesses, procs[p].id)
    /\ procs' = [procs EXCEPT ![p] =
                   [@ EXCEPT !.st = "errored",
                             !.errSave = TRUE,
                             !.end = "spawnerror",
                             !.err = SpawnError(n),
                             !.doc = [updateScrapingStatus(@, "failed", SpawnError(n), now)
                                        EXCEPT !.saving = TRUE]]]
    /\ UNCHANGED <<db, reqs, now, up, ops>>

(* The save of the 'error' callback reaches storage.  The callback has no    *)
(* try/catch: a rejected save is an unhandled rejection, on which the server *)
(* exits.                                                                     *)
ErrorSave(p) ==
    /\ up
    /\ p \in DOMAIN procs
    /\ procs[p].errSave
    /\ LET rec == db[procs[p].id]
       IN /\ db' = [db EXCEPT ![procs[p].id] = Save(rec, procs[p].doc)]
          /\ procs' = [procs EXCEPT ![p] =
                         AfterCallback([@ EXCEPT !.errSave = FALSE],
                                       Settled(rec, procs[p].doc))]
          /\ up' = ~SaveFails(rec, procs[p].doc)
    /\ UNCHANGED <<activeScrapingProcesses, reqs, now, ops>>

(* After the 'error' event the child may also emit 'close', with a non-zero  *)
(* code and nothing on stderr.  The 'close' callback runs on the same        *)
(* document: if the save of the 'error' callback is still in flight its own  *)
(* save is rejected at once (a parallel save), which it catches; what it     *)
(* changed in memory is then never written.                                  *)
ProcCloseAfterError(p) ==
    /\ up
    /\ p \in DOMAIN procs
    /\ procs[p].st = "errored"
    /\ activeScrapingProcesses' = MapDelete(activeScrapingProcesses, procs[p].id)
    /\ procs' = [procs EXCEPT ![p] =
                   [@ EXCEPT !.st = "closed",
                             !.closeSave = ~procs[p].doc.saving,
                             !.doc = IF procs[p].doc.saving
                                     THEN @
                                     ELSE [CloseUpdate(@, 1, Stderr(0), now)
                                             EXCEPT !.saving = TRUE]]]
    /\ UNCHANGED <<db, reqs, now, up, ops>>

----------------------------------------------------------------------------
(* POST /api/scrape/stop/:id  (scrape.js, router.post('/stop/:id'))          *)

(* process.kill('SIGTERM') on a handle *)
Kill(ps, p) == [ps EXCEPT ![p] = [@ EXCEPT !.sig = TRUE]]

(* A stop handler that takes any registered process, a bulk run included,   *)
(* for the scrape of the university.                                         *)
StopRequest_AnyProcess(id) ==
    /\ up
    /\ FreeSlot(reqs, StopSlots) # 0
    /\ IF DOMAIN activeScrapingProcesses = {}
       THEN /\ reqs' = [reqs EXCEPT ![FreeSlot(reqs, StopSlots)] =
                          Respond(Request("stop", id, "done", NoDoc), 404)]
            /\ UNCHANGED <<procs, activeScrapingProcesses>>
       ELSE LET k == IF MapHas(activeScrapingProcesses, id) THEN id
                     ELSE CHOOSE x \in DOMAIN activeScrapingProcesses : TRUE
            IN /\ procs' = Kill(procs, activeScrapingProcesses[k])
               /\ activeScrapingProcesses' = MapDelete(activeScrapingProcesses, k)
               /\ reqs' = [reqs EXCEPT ![FreeSlot(reqs, StopSlots)] =
                             [Request("stop", id, "find", NoDoc)
                                EXCEPT !.proc = activeScrapingProcesses[k]]]
    /\ UNCHANGED <<db, now, up, ops>>

(* The request arrives: 404 without a registry entry; otherwise the process  *)
(* is signalled, the entry deleted and University.findById is in flight.     *)
StopRequest(id) ==
    /\ up
    /\ FreeSlot(reqs, StopSlots) # 0
    /\ IF ~MapHas(activeScrapingProcesses, id)
       THEN /\ reqs' = [reqs EXCEPT ![FreeSlot(reqs, StopSlots)] =
                          Respond(Request("stop", id, "done", NoDoc), 404)]
            /\ UNCHANGED <<procs, activeScrapingProcesses>>
       ELSE /\ procs' = Kill(procs, activeScrapingProcesses[id])
            /\ activeScrapingProcesses' = MapDelete(activeScrapingProcesses, id)
            /\ reqs' = [reqs EXCEPT ![FreeSlot(reqs, StopSlots)] =
                          [Request("stop", id, "find", NoDoc)
                             EXCEPT !.proc = activeScrapingProcesses[id]]]
    /\ UNCHANGED <<db, now, up, ops>>

(* findById reads the record and the handler calls                           *)
(* updateScrapingStatus('paused', 'Stopped by user'); the save is in flight. *)
StopFind(r) ==
    /\ up
    /\ r \in DOMAIN reqs
    /\ reqs[r].op = "stop" /\ reqs[r].pc = "find"
    /\ reqs' = [reqs EXCEPT ![r] =
                  [@ EXCEPT !.pc = "save",
                            !.doc = [updateScrapingStatus(Hydrate(db[reqs[r].id]), "paused",
                                                          StoppedByUser, now)
                                        EXCEPT !.saving = TRUE]]]
    /\ UNCHANGED <<db, activeScrapingProcesses, procs, now, up, ops>>

(* The save reaches storage. *)
StopSave(r) ==
    /\ up
    /\ r \in DOMAIN reqs
    /\ reqs[r].op = "stop" /\ reqs[r].pc = "save"
    /\ LET req == reqs[r]
           rec == db[req.id]
       IN /\ db' = [db EXCEPT ![req.id] = Save(rec, req.doc)]
          /\ reqs' = [reqs EXCEPT ![r] =
                        [req EXCEPT !.pc = IF SaveFails(rec, req.doc) THEN "error" ELSE "respond",
                                    !.doc = Settled(rec, req.doc)]]
    /\ UNCHANGED <<activeScrapingProcesses, procs, now, up, ops>>

(* The handler resumes and answers: success, or 500 from its catch block. *)
StopRespond(r) ==
    /\ up
    /\ r \in DOMAIN reqs
    /\ reqs[r].op = "stop" /\ reqs[r].pc \in {"respond", "error"}
    /\ reqs' = [reqs EXCEPT ![r] =
                  [Respond(@, IF reqs[r].pc = "error" THEN 500 ELSE 200)
                     EXCEPT !.proc = reqs[r].proc]]
    /\ UNCHANGED <<db, activeScrapingProcesses, procs, now, up, ops>>

----------------------------------------------------------------------------
(* POST /api/scrape/stop-all  (scrape.js, router.post('/stop-all'))          *)

RECURSIVE KillAll(_, _)
KillAll(ps, handles) ==
    IF handles = {} THEN ps
    ELSE LET p == CHOOSE x \in handles : TRUE
         IN KillAll(Kill(ps, p), handles \ {p})

(* University.updateMany({scraping_status: 'scraping'}, {scraping_status:    *)
(* 'paused', $push: {scraping_history: {...'Stopped by admin'}}})            *)
StopAllUpdate(rec) ==
    IF rec.scraping_status = "scraping"
    THEN [rec EXCEPT !.scraping_status = "paused",
                     !.scraping_history =
                         Append(@, HistoryEntry("partial", StoppedByAdmin))]
    ELSE rec

(* The request arrives: every registered process is signalled, the registry  *)
(* cleared, and the updateMany is in flight.                                 *)
StopAllRequest ==
    /\ up
    /\ FreeSlot(reqs, StopAllSlots) # 0
    /\ procs' = KillAll(procs, {activeScrapingProcesses[k] : k \in DOMAIN activeScrapingProcesses})
    /\ activeScrapingProcesses' = EmptyMap
    /\ reqs' = [reqs EXCEPT ![FreeSlot(reqs, StopAllSlots)] =
                  Request("stopAll", 0, "update", NoDoc)]
    /\ UNCHANGED <<db, now, up, ops>>

(* The updateMany reaches storage. *)
StopAllSweep(r) ==
    /\ up
    /\ r \in DOMAIN reqs
    /\ reqs[r].op = "stopAll" /\ reqs[r].pc = "update"
    /\ db' = [i \in DOMAIN db |-> StopAllUpdate(db[i])]
    /\ reqs' = [reqs EXCEPT ![r] = [@ EXCEPT !.pc = "respond"]]
    /\ UNCHANGED <<activeScrapingProcesses, procs, now, up, ops>>

(* The handler resumes and answers. *)
StopAllRespond(r) ==
    /\ up
    /\ r \in DOMAIN reqs
    /\ reqs[r].op = "stopAll" /\ reqs[r].pc = "respond"
    /\ reqs' = [reqs EXCEPT ![r] = Respond(@, 200)]
    /\ UNCHANGED <<db, activeScrapingProcesses, procs, now, up, ops>>

----------------------------------------------------------------------------
(* POST /api/scrape/bulk  (scrape.js, router.post('/bulk'))                  *)

BulkBase == 100              \* the registry keys 'bulk_<time>' are BulkBase + time

(* `bulk_${Date.now()}` *)
BulkKey(t) == BulkBase + t

(* A sort that puts the null dates last. *)
Before_NullsLast(coll, a, b) ==
    \/ coll[a].scraping_priority > coll[b].scraping_priority
    \/ /\ coll[a].scraping_priority = coll[b].scraping_priority
       /\ \/ coll[a].last_scraped # NoDate /\ coll[b].last_scraped = NoDate
          \/ /\ (coll[a].last_scraped = NoDate) = (coll[b].last_scraped = NoDate)
             /\ \/ coll[a].last_scraped < coll[b].last_scraped
                \/ coll[a].last_scraped = coll[b].last_scraped /\ a < b

(* sort({scraping_priority: -1, last_scraped: 1}): record a comes before    *)
(* record b.  A null date sorts before every date; records equal in both   *)
(* keys come in the order of their ids.                                      *)
Before(coll, a, b) ==
    \/ coll[a].scraping_priority > coll[b].scraping_priority
    \/ /\ coll[a].scraping_priority = coll[b].scraping_priority
       /\ \/ coll[a].last_scraped < coll[b].last_scraped
          \/ coll[a].last_scraped = coll[b].last_scraped /\ a < b

RECURSIVE Sort(_, _)
Sort(coll, S) ==
    IF S = {} THEN <<>>
    ELSE LET first == CHOOSE a \in S : \A b \in S \ {a} : Before(coll, a, b)
         IN <<first>> \o Sort(coll, S \ {first})

(* Query.limit(n) *)
Limit(s, n) == IF Len(s) <= n THEN s ELSE SubSeq(s, 1, n)

(* find({_id: {$in: ids}, ...}) without a sort: the matches by id. *)
RECURSIVE Natural(_)
Natural(S) ==
    IF S = {} THEN <<>>
    ELSE LET first == CHOOSE a \in S : \A b \in S : a <= b
         IN <<first>> \o Natural(S \ {first})

(* The records a bulk request may take: active and not being scraped. *)
BulkEligible(coll) ==
    {i \in DOMAIN coll : coll[i].is_active /\ coll[i].scraping_status # "scraping"}

(* universitiesToScrape, as the ids of the records found. *)
BulkSelection(coll, scrape_all, filter_by_priority, min_priority, university_ids) ==
    IF scrape_all
    THEN Limit(Sort(coll, {i \in BulkEligible(coll) :
                              filter_by_priority
                              => coll[i].scraping_priority >= min_priority}),
               BulkLimit)
    ELSE Natural(BulkEligible(coll) \cap university_ids)

NoList == {0}                \* a body without a university_ids array

BulkRequest(op, pc, scrape_all, filter_by_priority, min_priority, university_ids) ==
    [op |-> op, id |-> 0, pc |-> pc, doc |-> NoDoc, res |-> 0, proc |-> NoProc,
     scrape_all |-> scrape_all, filter_by_priority |-> filter_by_priority,
     min_priority |-> min_priority, university_ids |-> university_ids,
     universitiesToScrape |-> <<>>]

(* The request arrives: 400 with neither scrape_all nor a university_ids    *)
(* array; otherwise University.find is in flight.                            *)
BulkStart(scrape_all, filter_by_priority, min_priority, university_ids) ==
    /\ up
    /\ FreeSlot(reqs, BulkSlots) # 0
    /\ reqs' = [reqs EXCEPT ![FreeSlot(reqs, BulkSlots)] =
                  IF ~scrape_all /\ university_ids = NoList
                  THEN Respond(BulkRequest("bulk", "done", scrape_all, filter_by_priority,
                                           min_priority, university_ids), 400)
                  ELSE BulkRequest("bulk", "find", scrape_all, filter_by_priority,
                                   min_priority, university_ids)]
    /\ UNCHANGED <<db, activeScrapingProcesses, procs, now, up, ops>>

(* The find reaches storage: 404 if it selects nothing. *)
BulkFind(r) ==
    /\ up
    /\ reqs[r].op = "bulk" /\ reqs[r].pc = "find"
    /\ LET sel == BulkSelection(db, reqs[r].scrape_all, reqs[r].filter_by_priority,
                                reqs[r].min_priority, reqs[r].university_ids)
       IN reqs' = [reqs EXCEPT ![r] =
                     IF sel = <<>> THEN Respond(@, 404)
                     ELSE [@ EXCEPT !.pc = "spawn", !.universitiesToScrape = sel]]
    /\ UNCHANGED <<db, activeScrapingProcesses, procs, now, up, ops>>

(* The handler resumes: one scraper process is spawned with --scrape-all    *)
(* and registered under the bulk key, and the request is answered; a spawn  *)
(* that throws is answered with 500.                                         *)
BulkSpawn(r, outcome) ==
    /\ up
    /\ reqs[r].op = "bulk" /\ reqs[r].pc = "spawn"
    /\ IF outcome = "throws"
       THEN /\ reqs' = [reqs EXCEPT ![r] = Respond(@, 500)]
            /\ UNCHANGED <<procs, activeScrapingProcesses>>
       ELSE /\ procs' = [procs EXCEPT ![r] = Process(BulkKey(now), NoDoc, outcome)]
            /\ activeScrapingProcesses' = MapSet(activeScrapingProcesses, BulkKey(now), r)
            /\ reqs' = [reqs EXCEPT ![r] = [Respond(@, 200) EXCEPT !.proc = r]]
    /\ UNCHANGED <<db, now, up, ops>>

(* bulkProcess.on('error'): the spawn failed; the registry entry is deleted. *)
BulkError(p) ==
    /\ up
    /\ procs[p].st = "failed"
    /\ activeScrapingProcesses' = MapDelete(activeScrapingProcesses, procs[p].id)
    /\ procs' = [procs EXCEPT ![p] = [@ EXCEPT !.st = "errored"]]
    /\ UNCHANGED <<db, reqs, now, up, ops>>

(* A 'close' callback that also records the outcome on the records. *)
BulkClose_MarkRecords(p) ==
    /\ up
    /\ procs[p].st \in {"running", "errored"}
    /\ activeScrapingProcesses' = MapDelete(activeScrapingProcesses, procs[p].id)
    /\ procs' = [procs EXCEPT ![p] = [@ EXCEPT !.st = "closed"]]
    /\ db' = [i \in DOMAIN db |-> [db[i] EXCEPT !.scraping_status = "completed"]]
    /\ UNCHANGED <<reqs, now, up, ops>>

(* bulkProcess.on('close'): the registry entry is deleted; nothing is       *)
(* written to the collection.                                                *)
BulkClose(p) ==
    /\ up
    /\ procs[p].st \in {"running", "errored"}
    /\ activeScrapingProcesses' = MapDelete(activeScrapingProcesses, procs[p].id)
    /\ procs' = [procs EXCEPT ![p] = [@ EXCEPT !.st = "closed"]]
    /\ UNCHANGED <<db, reqs, now, up, ops>>

----------------------------------------------------------------------------
(* Time passes. *)
Tick ==
    /\ now < MaxTime
    /\ now' = now + 1
    /\ UNCHANGED <<db, activeScrapingProcesses, reqs, procs, up, ops>>

Next ==
    \/ \E id \in ReqIds : StartRequest(id)
    \/ \E r \in ReqIx : StartGuard(r)
    \/ \E r \in ReqIx : StartSave(r)
    \/ \E r \in ReqIx, o \in SpawnOutcomes : StartSpawn(r, o, SpawnErrLen)
    \/ \E r \in ReqIx : StartCatch(r)
    \/ \E r \in ReqIx : StartCatchEnd(r)
    \/ \E p \in ProcIx, c \in ExitCodes, n \in ErrLens : ProcClose(p, c, n)
    \/ \E p \in ProcIx : CloseSave(p)
    \/ \E p \in ProcIx : ProcError(p, SpawnErrLen)
    \/ \E p \in ProcIx : ErrorSave(p)
    \/ \E p \in ProcIx : ProcCloseAfterError(p)
    \/ \E id \in ReqIds : StopRequest(id)
    \/ \E r \in ReqIx : StopFind(r)
    \/ \E r \in ReqIx : StopSave(r)
    \/ \E r \in ReqIx : StopRespond(r)
    \/ StopAllRequest
    \/ \E r \in ReqIx : StopAllSweep(r)
    \/ \E r \in ReqIx : StopAllRespond(r)
    \/ \E a \in BOOLEAN, ids \in {NoList, Ids} : BulkStart(a, FALSE, DefaultPriority, ids)
    \/ \E r \in BulkSlots : BulkFind(r)
    \/ \E r \in BulkSlots, o \in SpawnOutcomes : BulkSpawn(r, o)
    \/ \E p \in BulkProcIx : BulkError(p)
    \/ \E p \in BulkProcIx : BulkClose(p)
    \/ Tick

Spec == Init /\ [][Next]_vars

(* The same server over a collection holding one freshly created record. *)
InitFresh ==
    /\ Init
    /\ \A i \in Ids : db[i] = NewRecord(i, i)

SpecFresh == InitFresh /\ [][Next]_vars

(* The scraping routes with one start request, over records whose history   *)
(* entries can be told apart: entry k of a record is a failure with k       *)
(* characters of stderr.                                                     *)
NumberedHistory(n) == [k \in 1..n |-> HistoryEntry("failed", Stderr(k))]

NumberedRecord(id, n, status, last) ==
    [NewRecord(id, id) EXCEPT
        !.scraping_status = status,
        !.last_scraped = last,
        !.next_scrape_scheduled = IF last = NoDate THEN NoDate ELSE last + SevenDays,
        !.scraping_history = NumberedHistory(n),
        !.v = n]

HistoryRecords(id) ==
    { NumberedRecord(id, HistoryCap - 2, "failed", NoDate),
      NumberedRecord(id, HistoryCap - 1, "failed", NoDate),
      NumberedRecord(id, HistoryCap, "failed", NoDate),
      NumberedRecord(id, HistoryCap, "completed", 0) }

InitHistory ==
    /\ db \in {f \in [Ids -> UNION {HistoryRecords(i) : i \in Ids}] :
                  \A i \in Ids : f[i] \in HistoryRecords(i)}
    /\ activeScrapingProcesses = EmptyMap
    /\ reqs = [r \in ReqIx |-> Idle]
    /\ procs = [p \in ProcIx \cup BulkProcIx |-> NoProcess]
    /\ now = 0
    /\ up = TRUE
    /\ ops = [o \in OpIx |-> NoOp]

(* A start request that arrives while no other has. *)
SingleStart(id) ==
    /\ FreeSlot(reqs, StartSlots) = 1
    /\ StartRequest(id)

NextHistory ==
    \/ \E id \in ReqIds : SingleStart(id)
    \/ \E r \in ReqIx : StartGuard(r)
    \/ \E r \in ReqIx : StartSave(r)
    \/ \E r \in ReqIx, o \in SpawnOutcomes : StartSpawn(r, o, SpawnErrLen)
    \/ \E r \in ReqIx : StartCatch(r)
    \/ \E r \in ReqIx : StartCatchEnd(r)
    \/ \E p \in ProcIx, c \in ExitCodes : ProcClose(p, c, ShortErrLen)
    \/ \E p \in ProcIx : CloseSave(p)
    \/ \E p \in ProcIx : ProcError(p, SpawnErrLen)
    \/ \E p \in ProcIx : ErrorSave(p)
    \/ \E p \in ProcIx : ProcCloseAfterError(p)
    \/ \E id \in ReqIds : StopRequest(id)
    \/ \E r \in ReqIx : StopFind(r)
    \/ \E r \in ReqIx : StopSave(r)
    \/ \E r \in ReqIx : StopRespond(r)
    \/ StopAllRequest
    \/ \E r \in ReqIx : StopAllSweep(r)
    \/ \E r \in ReqIx : StopAllRespond(r)
    \/ Tick

SpecHistory == InitHistory /\ [][NextHistory]_vars

(* The scraping routes with a scrape that is started, stopped and started   *)
(* again: the second start request arrives once the process of the first    *)
(* has been signalled.                                                       *)
Restart(id) ==
    /\ FreeSlot(reqs, StartSlots) = 2
    /\ procs[1].id = id /\ procs[1].sig
    /\ StartRequest(id)

SecondStart(id) == FreeSlot(reqs, StartSlots) = 2 /\ StartRequest(id)

NextRestart ==
    \/ \E id \in ReqIds : SingleStart(id)
    \/ \E id \in ReqIds : Restart(id)
    \/ \E r \in ReqIx : StartGuard(r)
    \/ \E r \in ReqIx : StartSave(r)
    \/ \E r \in ReqIx, o \in SpawnOutcomes : StartSpawn(r, o, SpawnErrLen)
    \/ \E r \in ReqIx : StartCatch(r)
    \/ \E r \in ReqIx : StartCatchEnd(r)
    \/ \E p \in ProcIx, c \in ExitCodes : ProcClose(p, c, ShortErrLen)
    \/ \E p \in ProcIx : CloseSave(p)
    \/ \E p \in ProcIx : ProcError(p, SpawnErrLen)
    \/ \E p \in ProcIx : ErrorSave(p)
    \/ \E p \in ProcIx : ProcCloseAfterError(p)
    \/ \E id \in ReqIds : StopRequest(id)
    \/ \E r \in ReqIx : StopFind(r)
    \/ \E r \in ReqIx : StopSave(r)
    \/ \E r \in ReqIx : StopRespond(r)
    \/ Tick

SpecRestart == Init /\ [][NextRestart]_vars

(* Two start requests, arriving at any time, and the processes they spawn.  *)
NextGuards ==
    \/ \E id \in ReqIds : SingleStart(id)
    \/ \E id \in ReqIds : SecondStart(id)
    \/ \E r \in ReqIx : StartGuard(r)
    \/ \E r \in ReqIx : StartSave(r)
    \/ \E r \in ReqIx, o \in SpawnOutcomes : StartSpawn(r, o, SpawnErrLen)
    \/ \E r \in ReqIx : StartCatch(r)
    \/ \E r \in ReqIx : StartCatchEnd(r)
    \/ \E p \in ProcIx, c \in ExitCodes : ProcClose(p, c, ShortErrLen)
    \/ \E p \in ProcIx : CloseSave(p)
    \/ \E p \in ProcIx : ProcError(p, SpawnErrLen)
    \/ \E p \in ProcIx : ErrorSave(p)
    \/ \E p \in ProcIx : ProcCloseAfterError(p)
    \/ Tick

SpecGuards == Init /\ [][NextGuards]_vars

(* The save of a 'close' callback is rejected by storage (the connection is *)
(* lost, the write times out): the callback's catch logs the error and      *)
(* returns; the record is not written.                                       *)
CloseSaveRejected(p) ==
    /\ up
    /\ p \in DOMAIN procs
    /\ procs[p].closeSave
    /\ procs' = [procs EXCEPT ![p] =
                   AfterCallback([@ EXCEPT !.closeSave = FALSE], procs[p].doc)]
    /\ UNCHANGED <<db, activeScrapingProcesses, reqs, now, up, ops>>

(* One scrape from start to the end of its callbacks, with a stop request   *)
(* and with either outcome of the close callback's save.                     *)
NextLive ==
    \/ \E id \in ReqIds : SingleStart(id)
    \/ \E r \in ReqIx : StartGuard(r)
    \/ \E r \in ReqIx : StartSave(r)
    \/ \E r \in ReqIx, o \in SpawnOutcomes : StartSpawn(r, o, SpawnErrLen)
    \/ \E r \in ReqIx : StartCatch(r)
    \/ \E r \in ReqIx : StartCatchEnd(r)
    \/ \E p \in ProcIx, c \in ExitCodes : ProcClose(p, c, ShortErrLen)
    \/ \E p \in ProcIx : CloseSave(p)
    \/ \E p \in ProcIx : CloseSaveRejected(p)
    \/ \E p \in ProcIx : ProcError(p, SpawnErrLen)
    \/ \E p \in ProcIx : ErrorSave(p)
    \/ \E p \in ProcIx : ProcCloseAfterError(p)
    \/ \E id \in ReqIds : StopRequest(id)
    \/ \E r \in ReqIx : StopFind(r)
    \/ \E r \in ReqIx : StopSave(r)
    \/ \E r \in ReqIx : StopRespond(r)
    \/ Tick

(* The event loop runs every handler that can resume and every callback     *)
(* whose event has arrived; every spawned process ends; every save settles. *)
(* Requests arrive, and time passes, as the environment pleases.             *)
FairLive ==
    /\ WF_vars(\E r \in ReqIx : StartGuard(r))
    /\ WF_vars(\E r \in ReqIx : StartSave(r))
    /\ WF_vars(\E r \in ReqIx, o \in SpawnOutcomes : StartSpawn(r, o, SpawnErrLen))
    /\ WF_vars(\E r \in ReqIx : StartCatch(r))
    /\ WF_vars(\E r \in ReqIx : StartCatchEnd(r))
    /\ WF_vars(\E p \in ProcIx, c \in ExitCodes : ProcClose(p, c, ShortErrLen))
    /\ WF_vars(\E p \in ProcIx : CloseSave(p) \/ CloseSaveRejected(p))
    /\ WF_vars(\E p \in ProcIx : ProcError(p, SpawnErrLen))
    /\ WF_vars(\E p \in ProcIx : ErrorSave(p))
    /\ WF_vars(\E r \in ReqIx : StopFind(r))
    /\ WF_vars(\E r \in ReqIx : StopSave(r))
    /\ WF_vars(\E r \in ReqIx : StopRespond(r))

SpecLive == Init /\ [][NextLive]_vars /\ FairLive

(* The bulk route alone over collections of up to MaxUniversities records:  *)
(* all of them fresh, or with priorities, inactive records and records      *)
(* being scraped mixed in.                                                   *)
MixedRecord(i) ==
    [NewRecord(i, i) EXCEPT
        !.scraping_priority = 1 + (i % 10),
        !.is_active = (i % 7 # 0),
        !.scraping_status = IF i % 5 = 0 THEN "scraping"
                            ELSE IF i % 3 = 0 THEN "completed" ELSE "pending",
        !.last_scraped = IF i % 3 = 0 THEN 0 ELSE NoDate]

BulkCollections ==
    {[i \in 1..n |-> NewRecord(i, i)] : n \in 0..MaxUniversities}
    \cup {[i \in 1..n |-> MixedRecord(i)] : n \in 0..MaxUniversities}

InitBulk ==
    /\ db \in BulkCollections
    /\ activeScrapingProcesses = EmptyMap
    /\ reqs = [r \in ReqIx |-> Idle]
    /\ procs = [p \in ProcIx \cup BulkProcIx |-> NoProcess]
    /\ now = 0
    /\ up = TRUE
    /\ ops = [o \in OpIx |-> NoOp]

(* The university_ids arrays of the callers: none, or the ids 1..k. *)
IdLists == {NoList} \cup {1..k : k \in 0..(MaxUniversities + 1)}

NextBulk ==
    \/ \E a \in BOOLEAN, f \in BOOLEAN, m \in {DefaultPriority, DefaultPriority + 3},
          ids \in IdLists : BulkStart(a, f, m, ids)
    \/ \E r \in BulkSlots : BulkFind(r)
    \/ \E r \in BulkSlots, o \in SpawnOutcomes : BulkSpawn(r, o)
    \/ \E p \in BulkProcIx : BulkError(p)
    \/ \E p \in BulkProcIx : BulkClose(p)

SpecBulk == InitBulk /\ [][NextBulk]_vars

(* Bulk starts over the collections of records in mixed states, asked for   *)
(* with scrape_all or with a list of ids.                                    *)
InitBulkRun ==
    /\ InitBulk
    /\ db \in {[i \in 1..n |-> MixedRecord(i)] : n \in 0..MaxUniversities}

NextBulkRun ==
    \/ \E a \in BOOLEAN, ids \in {NoList, 1..3} :
          BulkStart(a, FALSE, DefaultPriority, ids)
    \/ \E r \in BulkSlots : BulkFind(r)
    \/ \E r \in BulkSlots, o \in SpawnOutcomes : BulkSpawn(r, o)
    \/ \E p \in BulkProcIx : BulkError(p)
    \/ \E p \in BulkProcIx : BulkClose(p)

SpecBulkRun == InitBulkRun /\ [][NextBulkRun]_vars

----------------------------------------------------------------------------
(* The universities router (create, update, soft delete) and the seeder     *)

Names == 1..NumNames
Urls  == 1..NumNames
Absent == 0                 \* a field the request body does not carry

(* A collection without the unique indexes. *)
UniqueIndexesAllow_NoIndex(coll, id, name, url) == TRUE

(* The unique indexes on name and on url: a write is accepted only if no    *)
(* other stored record, active or not, has the name or the url it leaves    *)
(* in record id.                                                             *)
UniqueIndexesAllow(coll, id, name, url) ==
    \A j \in (DOMAIN coll) \ {id} : coll[j].name # name /\ coll[j].url # url

(* University.findOne({$or: [{name}, {url}]}) with _id # except: the first  *)
(* match, or 0.                                                              *)
Matches(coll, name, url, except) ==
    {j \in (DOMAIN coll) \ {except} : coll[j].name = name \/ coll[j].url = url}

(* A findOne that finds nothing. *)
FindOne_Nothing(coll, name, url, except) == 0

FindOne(coll, name, url, except) ==
    IF Matches(coll, name, url, except) = {} THEN 0
    ELSE CHOOSE j \in Matches(coll, name, url, except) :
            \A k \in Matches(coll, name, url, except) : j <= k

(* The _id of the next document inserted. *)
NewId(coll) == Cardinality(DOMAIN coll) + 1

Insert(coll, rec) == [x \in (DOMAIN coll) \cup {NewId(coll)} |->
                         IF x \in DOMAIN coll THEN coll[x] ELSE rec]

FreeOp == IF \E o \in OpIx : ops[o] = NoOp
          THEN CHOOSE o \in OpIx : ops[o] = NoOp /\ \A q \in OpIx : q < o => ops[q] # NoOp
          ELSE 0

Operation(op, pc, id, name, url) ==
    [op |-> op, pc |-> pc, id |-> id, name |-> name, url |-> url, res |-> 0]

Answer(o, code) == [o EXCEPT !.pc = "done", !.res = code]

(* The keys of createUniversitySchema that the model follows (city, type,   *)
(* country, contact_info, programs_offered, description and keywords are    *)
(* fields no route modelled here reads).                                     *)
CreateKeys == {"name", "url", "scraping_priority"}

(* A validator that lets unknown keys through. *)
createUniversitySchema_Unknown(body) ==
    IF /\ {"name", "url"} \subseteq DOMAIN body
       /\ "scraping_priority" \in DOMAIN body
          => (body.scraping_priority >= 1 /\ body.scraping_priority <= 10)
    THEN [error |-> FALSE, value |-> body @@ [scraping_priority |-> DefaultPriority]]
    ELSE [error |-> TRUE, value |-> body]

(* createUniversitySchema.validate(req.body): a key the schema does not     *)
(* name is an error, as are a missing name or url and a scraping_priority   *)
(* outside 1..10; the value is the body with the defaults filled in.        *)
createUniversitySchema(body) ==
    IF /\ DOMAIN body \subseteq CreateKeys
       /\ {"name", "url"} \subseteq DOMAIN body
       /\ "scraping_priority" \in DOMAIN body
          => (body.scraping_priority >= 1 /\ body.scraping_priority <= 10)
    THEN [error |-> FALSE, value |-> body @@ [scraping_priority |-> DefaultPriority]]
    ELSE [error |-> TRUE, value |-> body]

(* new University(value): every schema path the value carries is set, the   *)
(* others take their defaults.                                               *)
Document(value) ==
    LET defaults == NewRecord(value.name, value.url)
    IN [k \in DOMAIN defaults |-> IF k \in DOMAIN value THEN value[k] ELSE defaults[k]]

(* POST /api/universities: the body is validated (400 on an error), then    *)
(* findOne looks for a record with the name or the url; one found, the      *)
(* request fails with 409, otherwise University.create(value) is in flight. *)
CreatePost(body) ==
    /\ FreeOp # 0
    /\ LET checked == createUniversitySchema(body)
           value   == checked.value
       IN ops' = [ops EXCEPT ![FreeOp] =
                    IF checked.error
                    THEN Answer(Operation("create", "done", 0, Absent, Absent), 400)
                    ELSE IF FindOne(db, value.name, value.url, 0) # 0
                    THEN Answer(Operation("create", "done", 0, value.name, value.url), 409)
                    ELSE Operation("create", "insert", 0, value.name, value.url)
                            @@ [value |-> value]]
    /\ UNCHANGED <<db, activeScrapingProcesses, reqs, procs, now, up>>

(* University.create reaches storage: the document is inserted, or the      *)
(* insert is rejected by a unique index and the duplicate-key error is      *)
(* answered by handleDuplicateFieldsDB with 400.  The response carries the  *)
(* document stored.                                                          *)
CreateInsert(o) ==
    /\ ops[o].op = "create" /\ ops[o].pc = "insert"
    /\ IF UniqueIndexesAllow(db, 0, ops[o].name, ops[o].url)
       THEN /\ db' = Insert(db, Document(ops[o].value))
            /\ ops' = [ops EXCEPT ![o] = Answer([@ EXCEPT !.id = NewId(db)], 201)]
       ELSE /\ db' = db
            /\ ops' = [ops EXCEPT ![o] = Answer(@, 400)]
    /\ UNCHANGED <<activeScrapingProcesses, reqs, procs, now, up>>

(* PUT /api/universities/:id: the request arrives and findById reads the    *)
(* record: 404 if there is none; with a name or a url in the body the       *)
(* duplicate query is in flight, otherwise the update is.                   *)
UpdateRequest(id, name, url) ==
    /\ FreeOp # 0
    /\ ops' = [ops EXCEPT ![FreeOp] =
                 IF id \notin DOMAIN db
                 THEN Answer(Operation("update", "done", id, name, url), 404)
                 ELSE IF name # Absent \/ url # Absent
                 THEN Operation("update", "duplicate", id, name, url)
                 ELSE Operation("update", "write", id, name, url)]
    /\ UNCHANGED <<db, activeScrapingProcesses, reqs, procs, now, up>>

(* The duplicate query reaches storage: another record with the name or the *)
(* url, and the request fails with 409; otherwise the update is in flight.  *)
UpdateDuplicateCheck(o) ==
    /\ ops[o].op = "update" /\ ops[o].pc = "duplicate"
    /\ ops' = [ops EXCEPT ![o] =
                 IF FindOne(db, ops[o].name, ops[o].url, ops[o].id) # 0
                 THEN Answer(@, 409)
                 ELSE [@ EXCEPT !.pc = "write"]]
    /\ UNCHANGED <<db, activeScrapingProcesses, reqs, procs, now, up>>

(* The schema option timestamps: every update sent through the model sets   *)
(* updatedAt to the time of the call.  Only the records of SpecDelete carry *)
(* the field; elsewhere the timestamps are left out of the stored record.   *)
Touch(rec, t) ==
    IF "updatedAt" \in DOMAIN rec THEN [rec EXCEPT !.updatedAt = t] ELSE rec

(* findByIdAndUpdate(id, value): the fields of the body replace the stored  *)
(* ones. *)
Updated(rec, name, url) ==
    [rec EXCEPT !.name = IF name = Absent THEN @ ELSE name,
                !.url = IF url = Absent THEN @ ELSE url]

(* findByIdAndUpdate reaches storage: the record is updated, or the update  *)
(* is rejected by a unique index (400).                                      *)
UpdateWrite(o) ==
    /\ ops[o].op = "update" /\ ops[o].pc = "write"
    /\ LET new == Updated(db[ops[o].id], ops[o].name, ops[o].url)
       IN IF UniqueIndexesAllow(db, ops[o].id, new.name, new.url)
          THEN /\ db' = [db EXCEPT ![ops[o].id] = Touch(new, now)]
               /\ ops' = [ops EXCEPT ![o] = Answer(@, 200)]
          ELSE /\ db' = db
               /\ ops' = [ops EXCEPT ![o] = Answer(@, 400)]
    /\ UNCHANGED <<activeScrapingProcesses, reqs, procs, now, up>>

(* DELETE /api/universities/:id: findById, 404 if there is no record;       *)
(* otherwise findByIdAndUpdate(id, {is_active: false}) is in flight.        *)
DeleteRequest(id) ==
    /\ FreeOp # 0
    /\ ops' = [ops EXCEPT ![FreeOp] =
                 IF id \notin DOMAIN db
                 THEN Answer(Operation("delete", "done", id, Absent, Absent), 404)
                 ELSE Operation("delete", "write", id, Absent, Absent)]
    /\ UNCHANGED <<db, activeScrapingProcesses, reqs, procs, now, up>>

(* A delete that removes the record from the collection. *)
DeleteWrite_Remove(o) ==
    /\ ops[o].op = "delete" /\ ops[o].pc = "write"
    /\ db' = [i \in (DOMAIN db) \ {ops[o].id} |-> db[i]]
    /\ ops' = [ops EXCEPT ![o] = Answer(@, 204)]
    /\ UNCHANGED <<activeScrapingProcesses, reqs, procs, now, up>>

(* findByIdAndUpdate(id, {is_active: false}) reaches storage and the        *)
(* handler answers 204.                                                      *)
DeleteWrite(o) ==
    /\ ops[o].op = "delete" /\ ops[o].pc = "write"
    /\ db' = [db EXCEPT ![ops[o].id] = Touch([@ EXCEPT !.is_active = FALSE], now)]
    /\ ops' = [ops EXCEPT ![o] = Answer(@, 204)]
    /\ UNCHANGED <<activeScrapingProcesses, reqs, procs, now, up>>

(* The seed list: entry i has name i and url i. *)
PAKISTANI_UNIVERSITIES == [i \in 1..NumSeed |-> [name |-> i, url |-> i]]

(* UniversitySeeder.seedUniversity: findOne looks for a record with the     *)
(* entry's name or url; the update of the record found, or the create of a  *)
(* new one, is then in flight.                                               *)
SeedUniversity(i) ==
    /\ FreeOp # 0
    /\ LET e     == PAKISTANI_UNIVERSITIES[i]
           found == FindOne(db, e.name, e.url, 0)
       IN ops' = [ops EXCEPT ![FreeOp] =
                    IF found # 0
                    THEN Operation("seed", "update", found, e.name, e.url)
                    ELSE Operation("seed", "create", 0, e.name, e.url)]
    /\ UNCHANGED <<db, activeScrapingProcesses, reqs, procs, now, up>>

(* The seeder's write reaches storage; a rejection by a unique index is     *)
(* caught and counted as an error (res 1), a success is res 2.              *)
SeedWrite(o) ==
    /\ ops[o].op = "seed" /\ ops[o].pc \in {"update", "create"}
    /\ LET id == IF ops[o].pc = "update" THEN ops[o].id ELSE 0
       IN IF UniqueIndexesAllow(db, id, ops[o].name, ops[o].url)
          THEN /\ db' = IF ops[o].pc = "update"
                        THEN [db EXCEPT ![id] = Touch(Updated(@, ops[o].name, ops[o].url), now)]
                        ELSE Insert(db, [NewRecord(ops[o].name, ops[o].url)
                                           EXCEPT !.scraping_status = "pending"])
               /\ ops' = [ops EXCEPT ![o] = Answer(@, 2)]
          ELSE /\ db' = db
               /\ ops' = [ops EXCEPT ![o] = Answer(@, 1)]
    /\ UNCHANGED <<activeScrapingProcesses, reqs, procs, now, up>>

(* The collection the router starts on: empty, or holding records created   *)
(* before, one of them soft-deleted.                                         *)
InitialCollections ==
    { EmptyMap,
      Insert(EmptyMap, NewRecord(1, 1)),
      Insert(Insert(EmptyMap, NewRecord(1, 1)),
             [NewRecord(2, 2) EXCEPT !.is_active = FALSE]) }

InitCrud ==
    /\ db \in InitialCollections
    /\ activeScrapingProcesses = EmptyMap
    /\ reqs = [r \in ReqIx |-> Idle]
    /\ procs = [p \in ProcIx \cup BulkProcIx |-> NoProcess]
    /\ now = 0
    /\ up = TRUE
    /\ ops = [o \in OpIx |-> NoOp]

OpIds == 1..NumNames

NextCrud ==
    \/ \E n \in Names, u \in Urls : CreatePost([name |-> n, url |-> u])
    \/ \E o \in OpIx : CreateInsert(o)
    \/ \E i \in OpIds, n \in Names \cup {Absent}, u \in Urls \cup {Absent} :
          UpdateRequest(i, n, u)
    \/ \E o \in OpIx : UpdateDuplicateCheck(o)
    \/ \E o \in OpIx : UpdateWrite(o)
    \/ \E i \in OpIds : DeleteRequest(i)
    \/ \E o \in OpIx : DeleteWrite(o)
    \/ \E i \in 1..NumSeed : SeedUniversity(i)
    \/ \E o \in OpIx : SeedWrite(o)

SpecCrud == InitCrud /\ [][NextCrud]_vars

(* The create route alone, with bodies that carry a priority, and bodies    *)
(* that try to set the scraping status, the extracted data or is_active.    *)
Bodies ==
    LET base == {[name |-> n, url |-> u] : n \in Names, u \in Urls}
    IN base
       \cup {b @@ [scraping_priority |-> p] : b \in base, p \in {0, 1, 10, 11}}
       \cup {b @@ [scraping_status |-> st] : b \in base, st \in {"completed", "scraping"}}
       \cup {b @@ [data |-> [t \in DataTypes |-> <<9>>]] : b \in base}
       \cup {b @@ [is_active |-> FALSE] : b \in base}
       \cup {[name |-> n] : n \in Names}

NextCreate ==
    \/ \E b \in Bodies : CreatePost(b)
    \/ \E o \in OpIx : CreateInsert(o)
    \/ \E i \in OpIds : DeleteRequest(i)
    \/ \E o \in OpIx : DeleteWrite(o)

SpecCreate == InitCrud /\ [][NextCreate]_vars

(* The soft-delete route alone, over records that carry their update        *)
(* timestamp, while time passes.                                             *)
InitDelete ==
    /\ db \in {[i \in DOMAIN c |-> c[i] @@ [updatedAt |-> 0]] :
                  c \in InitialCollections
                        \cup {Insert(Insert(EmptyMap, NewRecord(1, 1)), NewRecord(2, 2))}}
    /\ activeScrapingProcesses = EmptyMap
    /\ reqs = [r \in ReqIx |-> Idle]
    /\ procs = [p \in ProcIx \cup BulkProcIx |-> NoProcess]
    /\ now = 0
    /\ up = TRUE
    /\ ops = [o \in OpIx |-> NoOp]

NextDelete ==
    \/ \E i \in OpIds : DeleteRequest(i)
    \/ \E o \in OpIx : DeleteWrite(o)
    \/ Tick

SpecDelete == InitDelete /\ [][NextDelete]_vars

----------------------------------------------------------------------------
(* UniversitySeeder.seedAll: the seed list is processed in order, one entry *)
(* after the other.  A run keeps its statistics, and for the record what    *)
(* it found when it started: the number of stored records and whether every *)
(* seed entry was stored already.                                            *)

Seeded(coll) ==
    \A i \in 1..NumSeed :
        \E j \in DOMAIN coll : /\ coll[j].name = PAKISTANI_UNIVERSITIES[i].name
                               /\ coll[j].url = PAKISTANI_UNIVERSITIES[i].url

SeedRun(coll, resetFirst) ==
    [op |-> "seedAll", pc |-> "find", id |-> 0, name |-> 0, url |-> 0, res |-> 0,
     index |-> 1, resetFirst |-> resetFirst,
     stats |-> [created |-> 0, updated |-> 0, errors |-> 0],
     before |-> Cardinality(DOMAIN coll), seeded |-> Seeded(coll)]

(* seedAll(resetFirst): with resetFirst, resetDatabase empties the          *)
(* collection (deleteMany) before the first entry is processed.             *)
SeedAllStart(resetFirst) ==
    /\ FreeOp # 0
    /\ db' = IF resetFirst THEN EmptyMap ELSE db
    /\ ops' = [ops EXCEPT ![FreeOp] = SeedRun(db', resetFirst)]
    /\ UNCHANGED <<activeScrapingProcesses, reqs, procs, now, up>>

(* seedUniversity: findOne looks for a record with the entry's name or url. *)
SeedAllFind(o) ==
    /\ ops[o].op = "seedAll" /\ ops[o].pc = "find"
    /\ LET e     == PAKISTANI_UNIVERSITIES[ops[o].index]
           found == FindOne(db, e.name, e.url, 0)
       IN ops' = [ops EXCEPT ![o] =
                    [@ EXCEPT !.id = found,
                              !.pc = IF found # 0 THEN "update" ELSE "create"]]
    /\ UNCHANGED <<db, activeScrapingProcesses, reqs, procs, now, up>>

(* seedUniversity: findByIdAndUpdate of the record found, or create of a    *)
(* new one; an error is caught and counted.  The loop then goes on to the   *)
(* next entry.                                                               *)
SeedAllWrite(o) ==
    /\ ops[o].op = "seedAll" /\ ops[o].pc \in {"update", "create"}
    /\ LET e   == PAKISTANI_UNIVERSITIES[ops[o].index]
           upd == ops[o].pc = "update"
           ok  == /\ upd => ops[o].id \in DOMAIN db
                  /\ UniqueIndexesAllow(db, IF upd THEN ops[o].id ELSE 0, e.name, e.url)
           next == [ops[o] EXCEPT
                      !.index = @ + 1,
                      !.pc = IF ops[o].index = NumSeed THEN "done" ELSE "find",
                      !.stats = [@ EXCEPT
                                   !.created = IF ok /\ ~upd THEN @ + 1 ELSE @,
                                   !.updated = IF ok /\ upd THEN @ + 1 ELSE @,
                                   !.errors = IF ok THEN @ ELSE @ + 1]]
       IN /\ db' = IF ~ok THEN db
                   ELSE IF upd THEN [db EXCEPT ![ops[o].id] = Updated(@, e.name, e.url)]
                   ELSE Insert(db, NewRecord(e.name, e.url))
          /\ ops' = [ops EXCEPT ![o] = next]
    /\ UNCHANGED <<activeScrapingProcesses, reqs, procs, now, up>>

(* The stores the seeder is run on: empty, or holding a university that is  *)
(* not on the seed list, active or soft-deleted, or holding the seeded      *)
(* universities with the first of them soft-deleted since.                   *)
SeedStores ==
    { EmptyMap,
      Insert(EmptyMap, NewRecord(NumSeed + 1, NumSeed + 1)),
      Insert(EmptyMap, [NewRecord(NumSeed + 1, NumSeed + 1) EXCEPT !.is_active = FALSE]),
      [i \in 1..NumSeed |->
          [NewRecord(PAKISTANI_UNIVERSITIES[i].name, PAKISTANI_UNIVERSITIES[i].url)
             EXCEPT !.is_active = (i # 1)]] }

InitSeed ==
    /\ db \in SeedStores
    /\ activeScrapingProcesses = EmptyMap
    /\ reqs = [r \in ReqIx |-> Idle]
    /\ procs = [p \in ProcIx \cup BulkProcIx |-> NoProcess]
    /\ now = 0
    /\ up = TRUE
    /\ ops = [o \in OpIx |-> NoOp]

NextSeed ==
    \/ \E reset \in BOOLEAN : SeedAllStart(reset)
    \/ \E o \in OpIx : SeedAllFind(o)
    \/ \E o \in OpIx : SeedAllWrite(o)

SpecSeed == InitSeed /\ [][NextSeed]_vars

----------------------------------------------------------------------------
(* The read routes: the university list, the scraping queue, the statistics *)
(* overview.  A read changes nothing; its answer is kept in its slot.       *)

MaxPageSize     == 100   \* part_003: Math.min(..., 100)
DefaultPageSize == 20    \* part_003: parseInt(queryParams.limit) || 20
QueueLimit      == 50    \* scrape.js: University.getScrapingQueue(50)

(* A query parameter is <<>> when absent and <<n>> when it is the integer n. *)
(* parseInt(q) || d: the default replaces NaN and 0.                         *)
ParseIntOr(q, d) == IF q = <<>> \/ q[1] = 0 THEN d ELSE q[1]

Min(a, b) == IF a <= b THEN a ELSE b

buildPaginationOptions(page, limit) ==
    LET p == ParseIntOr(page, 1)
        l == Min(ParseIntOr(limit, DefaultPageSize), MaxPageSize)
    IN [page |-> p, limit |-> l, skip |-> (p - 1) * l]

(* buildQueryFilters: is_active and, if given, scraping_status ("any": not  *)
(* given).                                                                   *)
buildQueryFilters(coll, scraping_status) ==
    {i \in DOMAIN coll :
        /\ coll[i].is_active
        /\ scraping_status # "any" => coll[i].scraping_status = scraping_status}

RECURSIVE SortByName(_, _)
SortByName(coll, S) ==
    IF S = {} THEN <<>>
    ELSE LET first == CHOOSE a \in S : \A b \in S : coll[a].name <= coll[b].name
         IN <<first>> \o SortByName(coll, S \ {first})

(* Query.skip(n) *)
Skip(s, n) == IF n >= Len(s) THEN <<>> ELSE SubSeq(s, n + 1, Len(s))

(* Query.limit(n) for a negative n returns -n documents. *)
Abs(n) == IF n < 0 THEN 0 - n ELSE n

(* Read requests take the highest slots; the slot of the next one, or 0. *)
QueryIx == {o \in OpIx : o > MaxOps - MaxQueries}

FreeQuery ==
    IF \E o \in QueryIx : ops[o] = NoOp
    THEN CHOOSE o \in QueryIx : ops[o] = NoOp /\ \A q \in QueryIx : q > o => ops[q] # NoOp
    ELSE 0

Query(op, code, out, pagination) ==
    [op |-> op, pc |-> "done", id |-> 0, name |-> 0, url |-> 0, res |-> code,
     out |-> out, pagination |-> pagination]

(* GET /api/universities: find(filters).sort({name: 1}).skip(skip)          *)
(* .limit(limit); storage rejects a negative skip and the request fails.    *)
ListUniversities(scraping_status, page, limit) ==
    /\ FreeQuery # 0
    /\ LET pg == buildPaginationOptions(page, limit)
           found == SortByName(db, buildQueryFilters(db, scraping_status))
       IN ops' = [ops EXCEPT ![FreeQuery] =
                    IF pg.skip < 0 THEN Query("list", 500, <<>>, pg)
                    ELSE Query("list", 200, Limit(Skip(found, pg.skip), Abs(pg.limit)), pg)]
    /\ UNCHANGED <<db, activeScrapingProcesses, reqs, procs, now, up>>

(* University.getScrapingQueue(limit) *)
getScrapingQueue(coll, limit) ==
    Limit(Sort(coll, {i \in DOMAIN coll :
                         /\ coll[i].scraping_status \in {"pending", "failed"}
                         /\ coll[i].is_active}),
          limit)

(* GET /api/scrape/queue, and any other caller of the static method. *)
ScrapingQueue(limit) ==
    /\ FreeQuery # 0
    /\ ops' = [ops EXCEPT ![FreeQuery] =
                 Query("queue", 200, getScrapingQueue(db, limit),
                       [page |-> 1, limit |-> limit, skip |-> 0])]
    /\ UNCHANGED <<db, activeScrapingProcesses, reqs, procs, now, up>>

ScrapingStatuses == {"pending", "scraping", "completed", "failed", "paused"}

(* GET /api/stats/overview and GET /api/universities/stats/overview: the    *)
(* counts total and active and the per-status rollup.                       *)
StatsOverview ==
    /\ FreeQuery # 0
    /\ ops' = [ops EXCEPT ![FreeQuery] =
                 Query("stats", 200,
                       [total |-> Cardinality(DOMAIN db),
                        active |-> Cardinality({i \in DOMAIN db : db[i].is_active}),
                        scraping_status |->
                            [s \in ScrapingStatuses |->
                                Cardinality({i \in DOMAIN db :
                                                db[i].is_active /\ db[i].scraping_status = s})]],
                       [page |-> 1, limit |-> 0, skip |-> 0])]
    /\ UNCHANGED <<db, activeScrapingProcesses, reqs, procs, now, up>>

(* The records the read routes run over. *)
QueryRecords(i) ==
    { NewRecord(i, i),
      [NewRecord(i, i) EXCEPT !.scraping_priority = 8, !.last_scraped = 1,
                              !.scraping_status = "failed"],
      [NewRecord(i, i) EXCEPT !.last_scraped = 0, !.scraping_status = "failed"],
      [NewRecord(i, i) EXCEPT !.last_scraped = 1, !.scraping_status = "failed"],
      [NewRecord(i, i) EXCEPT !.last_scraped = 0, !.scraping_status = "completed"],
      [NewRecord(i, i) EXCEPT !.scraping_status = "scraping"],
      [NewRecord(i, i) EXCEPT !.scraping_priority = 8, !.is_active = FALSE] }

QueryCollections ==
    UNION {{f \in [1..n -> UNION {QueryRecords(i) : i \in 1..n}] :
               \A i \in 1..n : f[i] \in QueryRecords(i)} : n \in 0..MaxQueryRecs}

InitQuery ==
    /\ db \in QueryCollections
    /\ activeScrapingProcesses = EmptyMap
    /\ reqs = [r \in ReqIx |-> Idle]
    /\ procs = [p \in ProcIx \cup BulkProcIx |-> NoProcess]
    /\ now = 0
    /\ up = TRUE
    /\ ops = [o \in OpIx |-> NoOp]

PageParams  == {<<>>, <<0 - 1>>, <<0>>, <<1>>, <<2>>}
LimitParams == {<<>>, <<0 - 5>>, <<1>>, <<MaxPageSize>>, <<100000>>}
QueueLimits == {1, 2, QueueLimit}

NextQuery ==
    \/ \E i \in 1..MaxQueryRecs : DeleteRequest(i)
    \/ \E o \in OpIx : DeleteWrite(o)
    \/ \E s \in {"any", "failed"}, p \in PageParams, l \in LimitParams :
          ListUniversities(s, p, l)
    \/ \E l \in QueueLimits : ScrapingQueue(l)
    \/ StatsOverview
    \/ \E a \in BOOLEAN, ids \in {NoList, 1..MaxQueryRecs} :
          BulkStart(a, FALSE, DefaultPriority, ids)
    \/ \E r \in BulkSlots : BulkFind(r)

SpecQuery == InitQuery /\ [][NextQuery]_vars

(* The scraping queue read while records are soft-deleted. *)
NextQueue ==
    \/ \E i \in 1..MaxQueryRecs : DeleteRequest(i)
    \/ \E o \in OpIx : DeleteWrite(o)
    \/ \E l \in QueueLimits : ScrapingQueue(l)

SpecQueue == InitQuery /\ [][NextQueue]_vars

----------------------------------------------------------------------------
(* The extracted data of a university: addExtractedData, the derived field  *)
(* data_completeness, and the completeness scores the search route and the  *)
(* statistics route compute in their aggregation pipelines.                 *)

(* A method that adds the new items to the stored ones. *)
addExtractedData_Merge(data, data_last_updated, dataType, newData, t) ==
    [data |-> [data EXCEPT ![dataType] = @ \o newData],
     data_last_updated |-> [data_last_updated EXCEPT ![dataType] = t]]

(* universitySchema.methods.addExtractedData, up to the call of save():     *)
(* data and data_last_updated of the document after the assignments.        *)
addExtractedData(data, data_last_updated, dataType, newData, t) ==
    [data |-> [data EXCEPT ![dataType] = newData],
     data_last_updated |-> [data_last_updated EXCEPT ![dataType] = t]]

(* A caller loads the document with findById and calls addExtractedData;    *)
(* the save is in flight.  It will send the two paths assigned, the array   *)
(* whole and guarded by the version the document was read at.               *)
ReplaceRequest(id, dataType, newData) ==
    /\ FreeOp # 0
    /\ id \in DOMAIN db
    /\ ops' = [ops EXCEPT ![FreeOp] =
                 [op |-> "replace", pc |-> "save", id |-> id, name |-> 0, url |-> 0,
                  res |-> 0, dataType |-> dataType, newData |-> newData,
                  at |-> now, v |-> db[id].v,
                  doc |-> addExtractedData(db[id].data, db[id].data_last_updated,
                                           dataType, newData, now)]]
    /\ UNCHANGED <<db, activeScrapingProcesses, reqs, procs, now, up>>

(* The save reaches storage: rejected with a VersionError if the record was *)
(* written at another version since; otherwise the two paths are set and    *)
(* the version goes up.                                                      *)
ReplaceSave(o) ==
    /\ ops[o].op = "replace" /\ ops[o].pc = "save"
    /\ LET rec == db[ops[o].id]
           t   == ops[o].dataType
       IN IF rec.v # ops[o].v
          THEN /\ db' = db
               /\ ops' = [ops EXCEPT ![o] = Answer(@, 500)]
          ELSE /\ db' = [db EXCEPT ![ops[o].id] =
                           [rec EXCEPT !.data[t] = ops[o].doc.data[t],
                                       !.data_last_updated[t] = ops[o].doc.data_last_updated[t],
                                       !.v = @ + 1]]
               /\ ops' = [ops EXCEPT ![o] = Answer(@, 200)]
    /\ UNCHANGED <<activeScrapingProcesses, reqs, procs, now, up>>

(* universitySchema.virtual('data_completeness') *)
data_completeness(rec) ==
    LET s0 == 0
        s1 == IF Len(rec.data["admission_dates"]) > 0 THEN s0 + 25 ELSE s0
        s2 == IF Len(rec.data["criteria"]) > 0 THEN s1 + 25 ELSE s1
        s3 == IF Len(rec.data["fee_structure"]) > 0 THEN s2 + 25 ELSE s2
        s4 == IF Len(rec.data["scholarships"]) > 0 THEN s3 + 25 ELSE s3
    IN s4

(* A score that counts the items instead of the lists. *)
data_completeness_score_Items(rec) ==
    25 * Len(rec.data["admission_dates"]) + 25 * Len(rec.data["criteria"])
    + 25 * Len(rec.data["fee_structure"]) + 25 * Len(rec.data["scholarships"])

(* The $addFields stage of the search route and of the statistics route:    *)
(* $add of {$cond: [{$gt: [{$size: ...}, 0]}, 25, 0]} over the four lists.  *)
data_completeness_score(rec) ==
    (IF Len(rec.data["admission_dates"]) > 0 THEN 25 ELSE 0)
    + (IF Len(rec.data["criteria"]) > 0 THEN 25 ELSE 0)
    + (IF Len(rec.data["fee_structure"]) > 0 THEN 25 ELSE 0)
    + (IF Len(rec.data["scholarships"]) > 0 THEN 25 ELSE 0)

(* GET /api/search/universities: the active records by name, paginated.    *)
(* A min_completeness parameter that parses to 0..100 adds the score to     *)
(* every record and keeps the records whose score reaches it; any other     *)
(* value adds no score and keeps every record.                              *)
SearchUniversities(min_completeness) ==
    /\ FreeQuery # 0
    /\ LET pg == buildPaginationOptions(<<>>, <<>>)
           scored == /\ min_completeness # <<>>
                     /\ min_completeness[1] >= 0
                     /\ min_completeness[1] <= 100
           matched == {i \in DOMAIN db :
                          /\ db[i].is_active
                          /\ scored => data_completeness_score(db[i]) >= min_completeness[1]}
           found == Limit(Skip(SortByName(db, matched), pg.skip), pg.limit)
       IN ops' = [ops EXCEPT ![FreeQuery] =
                    Query("search", 200,
                          [k \in DOMAIN found |->
                              IF scored
                              THEN [id |-> found[k],
                                    data_completeness_score |->
                                        data_completeness_score(db[found[k]])]
                              ELSE [id |-> found[k]]],
                          pg)]
    /\ UNCHANGED <<db, activeScrapingProcesses, reqs, procs, now, up>>

(* The $addFields stage of the completeness distribution of the statistics  *)
(* route.                                                                    *)
completeness_score(rec) ==
    (IF Len(rec.data["admission_dates"]) > 0 THEN 25 ELSE 0)
    + (IF Len(rec.data["criteria"]) > 0 THEN 25 ELSE 0)
    + (IF Len(rec.data["fee_structure"]) > 0 THEN 25 ELSE 0)
    + (IF Len(rec.data["scholarships"]) > 0 THEN 25 ELSE 0)

(* The boundaries of the $bucket stage. *)
boundaries == <<0, 25, 50, 75, 100, 101>>

(* GET /api/stats/universities, completenessDistribution: the number of     *)
(* active records in each bucket of the score (a bucket without records is  *)
(* absent from the answer of the driver and has the count 0 here).          *)
CompletenessDistribution ==
    /\ FreeQuery # 0
    /\ ops' = [ops EXCEPT ![FreeQuery] =
                 Query("distribution", 200,
                       [b \in 1..(Len(boundaries) - 1) |->
                           [range |-> boundaries[b],
                            count |-> Cardinality({i \in DOMAIN db :
                               /\ db[i].is_active
                               /\ completeness_score(db[i]) >= boundaries[b]
                               /\ completeness_score(db[i]) < boundaries[b + 1]})]],
                       [page |-> 1, limit |-> 0, skip |-> 0])]
    /\ UNCHANGED <<db, activeScrapingProcesses, reqs, procs, now, up>>

(* The extracted data alone: one record holding any of the 16 combinations  *)
(* of empty and non-empty lists, alone or beside a second record, and       *)
(* callers that replace lists while searches and statistics are answered.   *)
Payloads == {<<>>, <<1>>, <<2, 3>>}

Stored(f) ==
    [data |-> [t \in DataTypes |-> IF f[t] THEN <<9>> ELSE <<>>],
     data_last_updated |-> [t \in DataTypes |-> IF f[t] THEN 0 ELSE NoDate]]

DataRecords ==
    {[NewRecord(1, 1) EXCEPT !.data = Stored(f).data,
                             !.data_last_updated = Stored(f).data_last_updated] :
        f \in [DataTypes -> BOOLEAN]}

DataCollections ==
    {1 :> r : r \in DataRecords}
    \cup {(1 :> r) @@ (2 :> q) : r \in DataRecords,
            q \in {[NewRecord(2, 2) EXCEPT !.data["criteria"] = <<9>>,
                                           !.data["scholarships"] = <<9, 9>>],
                   [NewRecord(2, 2) EXCEPT !.is_active = FALSE,
                                           !.data = [t \in DataTypes |-> <<9>>]]}}

InitData ==
    /\ db \in DataCollections
    /\ activeScrapingProcesses = EmptyMap
    /\ reqs = [r \in ReqIx |-> Idle]
    /\ procs = [p \in ProcIx \cup BulkProcIx |-> NoProcess]
    /\ now = 0
    /\ up = TRUE
    /\ ops = [o \in OpIx |-> NoOp]

NextData ==
    \/ \E t \in DataTypes, d \in Payloads : ReplaceRequest(1, t, d)
    \/ \E o \in OpIx : ReplaceSave(o)
    \/ Tick

(* The replacements are followed on the record alone, starting with no     *)
(* list stored or with all four.                                            *)
InitReplace ==
    /\ InitData
    /\ DOMAIN db = {1}
    /\ \/ \A t \in DataTypes : db[1].data[t] = <<>>
       \/ \A t \in DataTypes : db[1].data[t] # <<>>

SpecData == InitReplace /\ [][NextData]_vars

MinScores == {<<>>, <<0>>, <<25>>, <<50>>, <<75>>, <<100>>, <<101>>}

NextCompleteness ==
    \/ \E t \in DataTypes, d \in Payloads : ReplaceRequest(1, t, d)
    \/ \E o \in OpIx : ReplaceSave(o)
    \/ \E m \in MinScores : SearchUniversities(m)
    \/ CompletenessDistribution

SpecCompleteness == InitData /\ [][NextCompleteness]_vars

----------------------------------------------------------------------------
(* Properties *)

NoOtherRequest(r) == \A q \in ReqIx \ {r} : reqs[q] = Idle

CallbacksDone(p) == ~procs[p].errSave /\ ~procs[p].closeSave

(* The start requests for id that have passed the guards and whose scrape   *)
(* is not over: still about to register, or their process is alive and has  *)
(* not been signalled.                                                       *)
ActiveStarts(id) ==
    {r \in StartSlots :
        /\ reqs[r].op = "start" /\ reqs[r].id = id
        /\ \/ reqs[r].pc \in {"save", "spawn"}
           \/ procs[r].st \in {"running", "failed"} /\ ~procs[r].sig}

(* C1: of the concurrent start requests for one university id at most one   *)
(* passes the registry guard and spawns a process: never are two accepted   *)
(* starts for the same id under way at once.                                 *)
C1_OneStartPerId == \A id \in Ids : Cardinality(ActiveStarts(id)) <= 1

(* C2: on a freshly created university, once the only request, an accepted  *)
(* start, has seen its process exit with code 0 and the callback's save has *)
(* settled, the record is completed, last_scraped is set, and the history   *)
(* holds exactly one entry, a success.                                       *)
C2_FreshSuccessOneEntry ==
    \A r \in StartSlots :
        (/\ NoOtherRequest(r)
         /\ reqs[r].res = 200
         /\ procs[r].end = "exit0"
         /\ CallbacksDone(r))
        => LET rec == db[reqs[r].id]
           IN /\ rec.scraping_status = "completed"
              /\ rec.last_scraped # NoDate
              /\ Len(rec.scraping_history) = 1
              /\ rec.scraping_history[1].status = "success"

(* C3: on a freshly created university, once the only request, an accepted *)
(* start, has seen its process exit non-zero or fail to spawn and the       *)
(* callbacks' saves have settled, the record is failed, its newest history  *)
(* entry is failed and carries the captured error text, and the history is  *)
(* as long after a spawn failure as after a non-zero exit (the entry of the *)
(* start and the entry of the failure).                                      *)
C3_FailureRecorded ==
    \A r \in StartSlots :
        (/\ NoOtherRequest(r)
         /\ reqs[r].res = 200
         /\ procs[r].end \in {"exit1", "spawnerror"}
         /\ CallbacksDone(r))
        => LET rec == db[reqs[r].id]
           IN /\ rec.scraping_status = "failed"
              /\ Last(rec.scraping_history).status = "failed"
              /\ Last(rec.scraping_history).error_message = procs[r].err
              /\ Len(rec.scraping_history) = 2

(* C4: when the guards of a start request for an existing university run,   *)
(* the request fails with 409 if the registry holds an entry for the id;    *)
(* otherwise with 429 if the record it read was completed less than one     *)
(* hour ago; otherwise it is accepted and its status write is sent.         *)
C4_GuardOrder ==
    [][\A r \in StartSlots :
          (reqs[r].pc = "guard" /\ reqs'[r].pc # "guard" /\ reqs[r].doc # NoDoc)
          => LET busy   == reqs[r].id \in DOMAIN activeScrapingProcesses
                 recent == /\ reqs[r].doc.last_scraped # NoDate
                           /\ now - reqs[r].doc.last_scraped < OneHour
             IN /\ busy => reqs'[r].res = 409
                /\ (~busy /\ recent) => reqs'[r].res = 429
                /\ (~busy /\ ~recent) => (reqs'[r].pc = "save" /\ reqs'[r].res = 0)]_vars

(* C4 witness: a start request was refused with 409 although the record it  *)
(* read was also inside the cooldown, one was refused with 429, and one was *)
(* accepted.                                                                 *)
C4_Witness ==
    /\ \E r \in StartSlots :
          /\ reqs[r].res = 409
          /\ reqs[r].doc.last_scraped # NoDate
          /\ now - reqs[r].doc.last_scraped < OneHour
    /\ \E r \in StartSlots : reqs[r].res = 200

(* C5: in the state in which stop-all answers, the registry is empty and no *)
(* stored record has scraping_status 'scraping'.                            *)
C5_StopAllLeavesNothing ==
    [][\A r \in StopAllSlots :
          (reqs[r].pc = "respond" /\ reqs'[r].pc = "done")
          => /\ DOMAIN activeScrapingProcesses' = {}
             /\ \A i \in DOMAIN db' : db'[i].scraping_status # "scraping"]_vars

(* C6: when a stop request that found a registry entry answers, no other    *)
(* request being under way, the process was signalled, its registry entry   *)
(* is gone, the record is paused and its newest history entry is the        *)
(* partial entry "Stopped by user".                                          *)
C6_StopLeavesPaused ==
    [][\A r \in StopSlots :
          (/\ reqs[r].pc = "respond" /\ reqs'[r].pc = "done"
           /\ \A q \in ReqIx \ {r} : reqs[q].pc \in {"idle", "done"})
          => LET rec == db'[reqs[r].id]
             IN /\ procs'[reqs[r].proc].sig
                /\ reqs[r].id \notin DOMAIN activeScrapingProcesses'
                /\ rec.scraping_status = "paused"
                /\ Last(rec.scraping_history) = HistoryEntry("partial", StoppedByUser)]_vars

(* The edges of the per-university state machine. *)
AllowedEdge(from, to) ==
    \/ from \in {"pending", "failed", "paused", "completed"} /\ to = "scraping"
    \/ from = "scraping" /\ to \in {"completed", "failed", "paused"}

(* C7: every change of a record's scraping_status follows an edge of the    *)
(* state machine; no record moves between two non-scraping states.          *)
C7_OnlyAllowedEdges ==
    [][\A i \in Ids :
          db'[i].scraping_status # db[i].scraping_status
          => AllowedEdge(db[i].scraping_status, db'[i].scraping_status)]_vars

(* C8: every record's scraping_history has at most 10 entries in every      *)
(* reachable state.                                                          *)
C8_HistoryBounded ==
    \A i \in Ids : Len(db[i].scraping_history) <= HistoryCap

(* C9: every error_message stored in a failed history entry has at most 500 *)
(* characters.                                                               *)
C9_ErrorTruncated ==
    \A i \in Ids : \A k \in DOMAIN db[i].scraping_history :
        db[i].scraping_history[k].status = "failed"
        => db[i].scraping_history[k].error_message.len <= ErrorCap

(* C10: in every reachable state no two stored records, active or           *)
(* soft-deleted, share a name, and no two share a url.                      *)
C10_NamesAndUrlsUnique ==
    \A i \in DOMAIN db : \A j \in DOMAIN db :
        i # j => (db[i].name # db[j].name /\ db[i].url # db[j].url)

(* C10 witness: two creates with the same name both passed the existence    *)
(* check; one was stored and the other was rejected by the index.           *)
C10_Witness ==
    \E a \in OpIx : \E b \in OpIx :
        /\ ops[a].op = "create" /\ ops[a].res = 201
        /\ ops[b].op = "create" /\ ops[b].res = 400
        /\ ops[a].name = ops[b].name

(* C11: a create request that is answered while a stored record, active or  *)
(* soft-deleted, has its name or its url is answered with 409 and stores    *)
(* nothing, whether the record was there when the request arrived or was    *)
(* stored by a concurrent request since.                                     *)
C11_DuplicateCreateConflicts ==
    [][\A o \in OpIx :
          (/\ ops[o].pc # "done"
           /\ ops'[o].op = "create" /\ ops'[o].pc = "done"
           /\ Matches(db, ops'[o].name, ops'[o].url, 0) # {})
          => (ops'[o].res = 409 /\ db' = db)]_vars

(* C12: the universities a bulk request selects are never more than 20,     *)
(* whether it asked for scrape_all or gave a university_ids array.          *)
C12_BulkSelectionCapped ==
    \A r \in BulkSlots :
        reqs[r].op = "bulk" => Len(reqs[r].universitiesToScrape) <= BulkLimit

(* C13: a stop request is answered with 404 exactly when the registry holds *)
(* no entry for its id, whatever the stored status of the record and        *)
(* whatever bulk run is registered; a request so answered signals no        *)
(* process and leaves the registry and the collection as they were.         *)
C13_StopNotFound ==
    [][\A r \in StopSlots :
          (reqs[r] = Idle /\ reqs'[r].op = "stop")
          => /\ (reqs'[r].res = 404) <=> ~MapHas(activeScrapingProcesses, reqs'[r].id)
             /\ reqs'[r].res = 404
                => /\ procs' = procs
                   /\ activeScrapingProcesses' = activeScrapingProcesses
                   /\ db' = db]_vars

(* C13 witness: a stop for a stored university was answered with 404 while  *)
(* a bulk run that selected the university is registered and its process    *)
(* has not been signalled.                                                   *)
C13_Witness ==
    \E r \in StopSlots : \E b \in BulkSlots :
        /\ reqs[r].op = "stop" /\ reqs[r].res = 404 /\ reqs[r].id \in Ids
        /\ reqs[b].op = "bulk" /\ reqs[b].res = 200
        /\ \E k \in DOMAIN reqs[b].universitiesToScrape :
              reqs[b].universitiesToScrape[k] = reqs[r].id
        /\ procs[b].st = "running" /\ ~procs[b].sig
        /\ MapHas(activeScrapingProcesses, procs[b].id)

C15_SoftDeletedExcluded ==
    [][LET deleted == {i \in DOMAIN db : ~db[i].is_active}
           kept    == (DOMAIN db) \ deleted
       IN /\ \A o \in OpIx :
               (ops[o] = NoOp /\ ops'[o].op \in {"list", "queue"} /\ ops'[o].res = 200)
               => \A k \in DOMAIN ops'[o].out : ops'[o].out[k] \notin deleted
          /\ \A o \in OpIx :
               (ops[o] = NoOp /\ ops'[o].op = "stats")
               => /\ ops'[o].out.total = Cardinality(kept)
                  /\ ops'[o].out.active = Cardinality(kept)
                  /\ \A s \in ScrapingStatuses :
                        ops'[o].out.scraping_status[s] =
                            Cardinality({i \in kept : db[i].scraping_status = s})
          /\ \A r \in BulkSlots :
               (reqs[r].op = "bulk" /\ reqs[r].pc = "find" /\ reqs'[r].pc = "spawn")
               => \A k \in DOMAIN reqs'[r].universitiesToScrape :
                     reqs'[r].universitiesToScrape[k] \notin deleted]_vars

(* C16: a seed run without reset that started on a store holding every seed *)
(* entry, no run with reset beside it, has updated every entry, created     *)
(* none and met no error when it is done, and the store holds as many       *)
(* records as when it started; a run that is the only one and started on an *)
(* empty store leaves one record per seed entry.                             *)
C16_SeedIdempotent ==
    \A o \in OpIx :
        (ops[o].op = "seedAll" /\ ops[o].pc = "done")
        => /\ (/\ ops[o].seeded /\ ~ops[o].resetFirst
               /\ \A q \in OpIx \ {o} : ops[q].op = "seedAll" => ~ops[q].resetFirst)
              => /\ ops[o].stats = [created |-> 0, updated |-> NumSeed, errors |-> 0]
                 /\ Cardinality(DOMAIN db) = ops[o].before
           /\ (ops[o].before = 0 /\ \A q \in OpIx \ {o} : ops[q] = NoOp)
              => Cardinality(DOMAIN db) = NumSeed

(* C16 witness: a first run created every seed entry on an empty store and  *)
(* a second run, started on the seeded store, is done having updated them   *)
(* all.                                                                      *)
C16_Witness ==
    \E a \in OpIx : \E b \in OpIx :
        /\ ops[a].op = "seedAll" /\ ops[a].pc = "done"
        /\ ops[a].before = 0 /\ ops[a].stats.created = NumSeed
        /\ ops[b].op = "seedAll" /\ ops[b].pc = "done"
        /\ ops[b].seeded /\ ~ops[b].resetFirst /\ ops[b].before = NumSeed
        /\ ops[b].stats.updated = NumSeed
        /\ Cardinality(DOMAIN db) = NumSeed

(* C17: whatever integers page and limit a list request carries, the        *)
(* pagination computed for it has limit <= 100, page >= 1 and skip >= 0.    *)
C17_PaginationClamped ==
    \A o \in OpIx :
        ops[o].op = "list"
        => /\ ops[o].pagination.limit <= MaxPageSize
           /\ ops[o].pagination.page >= 1
           /\ ops[o].pagination.skip >= 0

(* Record a is not behind record b in the order of the queue: a higher      *)
(* priority, or the same priority and never scraped, or the same priority   *)
(* and scraped no later.                                                     *)
QueueOrdered(coll, a, b) ==
    \/ coll[a].scraping_priority > coll[b].scraping_priority
    \/ /\ coll[a].scraping_priority = coll[b].scraping_priority
       /\ \/ coll[a].last_scraped = NoDate
          \/ /\ coll[b].last_scraped # NoDate
             /\ coll[a].last_scraped <= coll[b].last_scraped

(* C18: the scraping queue answers with active records in status pending or *)
(* failed only, each once, in the order of priority descending and then     *)
(* last_scraped ascending with the never-scraped first, as many as the      *)
(* limit allows, and no record left out belongs before one returned.        *)
C18_QueueSelectionAndOrder ==
    [][\A o \in OpIx :
          (ops[o] = NoOp /\ ops'[o].op = "queue")
          => LET out      == ops'[o].out
                 eligible == {i \in DOMAIN db : /\ db[i].is_active
                                                /\ db[i].scraping_status \in {"pending", "failed"}}
                 returned == {out[k] : k \in DOMAIN out}
             IN /\ returned \subseteq eligible
                /\ Cardinality(returned) = Len(out)
                /\ Len(out) = Min(ops'[o].pagination.limit, Cardinality(eligible))
                /\ \A k \in 1..(Len(out) - 1) : QueueOrdered(db, out[k], out[k + 1])
                /\ \A i \in eligible \ returned : \A k \in DOMAIN out :
                      QueueOrdered(db, out[k], i)]_vars

(* C18 witness: a queue of one record was answered from a collection with   *)
(* two candidates of the same priority; the one returned was never scraped  *)
(* and has the higher id, the one cut off was scraped before.               *)
C18_Witness ==
    \E o \in OpIx :
        /\ ops[o].op = "queue" /\ ops[o].pagination.limit = 1 /\ Len(ops[o].out) = 1
        /\ \E i \in DOMAIN db :
              /\ i # ops[o].out[1]
              /\ db[i].is_active /\ db[i].scraping_status = "failed"
              /\ db[i].scraping_priority = db[ops[o].out[1]].scraping_priority
              /\ db[i].last_scraped # NoDate
              /\ db[ops[o].out[1]].last_scraped = NoDate
              /\ i < ops[o].out[1]

(* C19: a successful replacement of data.<dataType> stores exactly the      *)
(* items of the call, whatever was stored before (so after two successive   *)
(* calls with P1 then P2 the list is P2), sets data_last_updated.<dataType> *)
(* to the time of the call, and leaves the other three lists and their      *)
(* timestamps as they were.                                                  *)
C19_ReplaceWholesale ==
    [][\A o \in OpIx :
          (/\ ops[o].op = "replace" /\ ops[o].pc = "save"
           /\ ops'[o].pc = "done" /\ ops'[o].res = 200)
          => LET id == ops[o].id
                 t  == ops[o].dataType
             IN /\ db'[id].data[t] = ops[o].newData
                /\ db'[id].data_last_updated[t] = ops[o].at
                /\ \A u \in DataTypes \ {t} :
                      /\ db'[id].data[u] = db[id].data[u]
                      /\ db'[id].data_last_updated[u] = db[id].data_last_updated[u]]_vars

(* Two successive successful replacements of the criteria of a record that  *)
(* held criteria and scholarships: P1 = <<1>> at time 0, P2 = <<2, 3>> at   *)
(* time 1; the list is P2, stamped 1, and the scholarships are untouched.   *)
C19_Witness ==
    /\ ops[1].op = "replace" /\ ops[1].pc = "done" /\ ops[1].res = 200
    /\ ops[2].op = "replace" /\ ops[2].pc = "done" /\ ops[2].res = 200
    /\ ops[1].dataType = "criteria" /\ ops[2].dataType = "criteria"
    /\ ops[1].newData = <<1>> /\ ops[1].at = 0
    /\ ops[2].newData = <<2, 3>> /\ ops[2].at = 1
    /\ db[1].data["criteria"] = <<2, 3>>
    /\ db[1].data_last_updated["criteria"] = 1
    /\ db[1].data["scholarships"] = <<9>>
    /\ db[1].data_last_updated["scholarships"] = 0

(* The number of non-empty lists of a record. *)
NonEmptyLists(rec) == Cardinality({t \in DataTypes : rec.data[t] # <<>>})

(* C20: data_completeness of every record is 25 times the number of its     *)
(* non-empty lists, one of 0, 25, 50, 75, 100; the score the search route   *)
(* and the statistics route compute equals it for every record, so a search *)
(* with min_completeness returns each record with that score and exactly    *)
(* the active records that reach the minimum, and the distribution counts   *)
(* each active record in the bucket of its data_completeness.               *)
C20_CompletenessAgrees ==
    [][/\ \A i \in DOMAIN db :
             /\ data_completeness(db[i]) = 25 * NonEmptyLists(db[i])
             /\ data_completeness(db[i]) \in {0, 25, 50, 75, 100}
             /\ data_completeness_score(db[i]) = data_completeness(db[i])
             /\ completeness_score(db[i]) = data_completeness(db[i])
       /\ \A o \in OpIx :
             (ops[o] = NoOp /\ ops'[o].op = "search")
             => LET out == ops'[o].out
                    scored == \E k \in DOMAIN out :
                                 "data_completeness_score" \in DOMAIN out[k]
                IN /\ \A k \in DOMAIN out :
                         "data_completeness_score" \in DOMAIN out[k]
                         => out[k].data_completeness_score
                               = data_completeness(db[out[k].id])
                   /\ scored =>
                         \E m \in {0, 25, 50, 75, 100} :
                            {out[k].id : k \in DOMAIN out}
                               = {i \in DOMAIN db : /\ db[i].is_active
                                                    /\ data_completeness(db[i]) >= m}
       /\ \A o \in OpIx :
             (ops[o] = NoOp /\ ops'[o].op = "distribution")
             => \A b \in DOMAIN ops'[o].out :
                   ops'[o].out[b].count
                      = Cardinality({i \in DOMAIN db :
                           /\ db[i].is_active
                           /\ data_completeness(db[i]) >= ops'[o].out[b].range
                           /\ data_completeness(db[i]) < ops'[o].out[b].range + 25})]_vars

(* A search with a minimum answered one record with the score 75 while      *)
(* another active record, of a lower score, stayed out of the answer.       *)
C20_Witness ==
    \E o \in OpIx :
        /\ ops[o].op = "search"
        /\ Len(ops[o].out) = 1
        /\ "data_completeness_score" \in DOMAIN ops[o].out[1]
        /\ ops[o].out[1].data_completeness_score = 75
        /\ data_completeness(db[ops[o].out[1].id]) = 75
        /\ \E i \in DOMAIN db : /\ db[i].is_active
                                /\ data_completeness(db[i]) = 50
                                /\ i # ops[o].out[1].id

(* C21: every create answered with 201 stored, and returned, a record with  *)
(* scraping_status pending and data_completeness 0, with no extracted data, *)
(* no scrape date and no history, whatever the body carried.                *)
C21_CreatedPendingAndEmpty ==
    [][\A o \in OpIx :
          (ops[o].pc = "insert" /\ ops'[o].pc = "done" /\ ops'[o].res = 201)
          => LET rec == db'[ops'[o].id]
             IN /\ ops'[o].id \notin DOMAIN db
                /\ rec.scraping_status = "pending"
                /\ data_completeness(rec) = 0
                /\ \A t \in DataTypes : rec.data[t] = <<>>
                /\ rec.last_scraped = NoDate
                /\ rec.scraping_history = <<>>]_vars

(* C21 witness: a create that supplied a scraping_priority of its own was   *)
(* stored with it, pending and empty, and a create that tried to set the    *)
(* scraping status was answered with 400.                                    *)
C21_Witness ==
    \E a \in OpIx : \E b \in OpIx :
        /\ ops[a].op = "create" /\ ops[a].res = 201
        /\ db[ops[a].id].scraping_priority = 10
        /\ db[ops[a].id].scraping_status = "pending"
        /\ data_completeness(db[ops[a].id]) = 0
        /\ ops[b].op = "create" /\ ops[b].res = 400 /\ ops[b].name = Absent

(* C22 as claimed: a delete is answered 404 exactly when no record has the  *)
(* id; its write leaves the record in storage with is_active false and is   *)
(* answered 204; applied to a record already soft-deleted it leaves the     *)
(* stored record as it was.                                                  *)
C22_SoftDeleteIdempotent ==
    [][\A o \in OpIx :
          /\ (ops[o] = NoOp /\ ops'[o].op = "delete")
             => ((ops'[o].res = 404) <=> (ops'[o].id \notin DOMAIN db))
          /\ (ops[o].op = "delete" /\ ops[o].pc = "write" /\ ops'[o].pc = "done")
             => /\ DOMAIN db' = DOMAIN db
                /\ ops'[o].res = 204
                /\ ~db'[ops[o].id].is_active
                /\ ~db[ops[o].id].is_active => db' = db]_vars

(* The stored record without its update timestamp. *)
Untimed(rec) == [k \in (DOMAIN rec) \ {"updatedAt"} |-> rec[k]]

(* C22 amended: as above, but applied to a record already soft-deleted the  *)
(* delete leaves every field of the stored record as it was except          *)
(* updatedAt, which is set to the time of the call; no other record         *)
(* changes and none is removed.                                              *)
C22_SoftDeleteIdempotentButStamp ==
    [][\A o \in OpIx :
          /\ (ops[o] = NoOp /\ ops'[o].op = "delete")
             => ((ops'[o].res = 404) <=> (ops'[o].id \notin DOMAIN db))
          /\ (ops[o].op = "delete" /\ ops[o].pc = "write" /\ ops'[o].pc = "done")
             => /\ DOMAIN db' = DOMAIN db
                /\ ops'[o].res = 204
                /\ ~db'[ops[o].id].is_active
                /\ db'[ops[o].id].updatedAt = now
                /\ \A i \in (DOMAIN db) \ {ops[o].id} : db'[i] = db[i]
                /\ Untimed(db'[ops[o].id])
                      = [Untimed(db[ops[o].id]) EXCEPT !.is_active = FALSE]]_vars

(* C22 witness: a record was soft-deleted twice, one delete after the       *)
(* other, both answered 204; it is stored, inactive, and stamped with the   *)
(* time of the second.                                                       *)
C22_Witness ==
    /\ ops[1].op = "delete" /\ ops[1].res = 204
    /\ ops[2].op = "delete" /\ ops[2].res = 204
    /\ ops[1].id = ops[2].id
    /\ ops[1].id \in DOMAIN db
    /\ ~db[ops[1].id].is_active
    /\ db[ops[1].id].updatedAt = 1

(* The history a call of recordScrapeOutcome is to leave, given the history *)
(* the record held: the new entry appended, and the oldest entry dropped if *)
(* the record held 10.                                                       *)
EvictsOldest(before, after) ==
    /\ Len(before) < HistoryCap
       => /\ Len(after) = Len(before) + 1
          /\ SubSeq(after, 1, Len(before)) = before
    /\ Len(before) = HistoryCap
       => /\ Len(after) = HistoryCap
          /\ SubSeq(after, 1, HistoryCap - 1) = Tail(before)

(* C23: whenever updateScrapingStatus is called for a record, by a start    *)
(* handler, its catch block, a stop handler, or a close or error callback,  *)
(* the history it computes for the record is the history the record holds   *)
(* at the call followed by the new entry, without the oldest entry h1 if    *)
(* the record holds the ten entries h1..h10.                                 *)
C23_OldestEvictedFirst ==
    [][/\ \A r \in StartSlots :
             (/\ reqs[r].pc \in {"guard", "spawn", "save"}
              /\ reqs'[r].pc \in {"save", "catchSave"}
              /\ reqs'[r].pc # reqs[r].pc)
             => EvictsOldest(db[reqs[r].id].scraping_history,
                             reqs'[r].doc.scraping_history)
       /\ \A r \in StopSlots :
             (reqs[r].pc = "find" /\ reqs'[r].pc = "save")
             => EvictsOldest(db[reqs[r].id].scraping_history,
                             reqs'[r].doc.scraping_history)
       /\ \A p \in ProcIx :
             (procs[p].st \in {"running", "failed"} /\ procs'[p].st \in {"closed", "errored"})
             => EvictsOldest(db[procs[p].id].scraping_history,
                             procs'[p].doc.scraping_history)]_vars

(* C24: a call of updateScrapingStatus sets last_scraped to the time of the *)
(* call and next_scrape_scheduled seven days later when the status is       *)
(* completed, and leaves both as they were for any other status; the        *)
(* stored timestamps change only when the save of a close callback after    *)
(* exit code 0 reaches storage, and become the ones of that call.           *)
C24_StampedOnlyOnCompleted ==
    [][/\ \A r \in StartSlots :
             (/\ reqs[r].pc \in {"guard", "spawn", "save"}
              /\ reqs'[r].pc \in {"save", "catchSave"}
              /\ reqs'[r].pc # reqs[r].pc)
             => /\ reqs'[r].doc.scraping_status \in {"scraping", "failed"}
                /\ reqs'[r].doc.last_scraped = reqs[r].doc.last_scraped
                /\ reqs'[r].doc.next_scrape_scheduled = reqs[r].doc.next_scrape_scheduled
       /\ \A r \in StopSlots :
             (reqs[r].pc = "find" /\ reqs'[r].pc = "save")
             => /\ reqs'[r].doc.scraping_status = "paused"
                /\ reqs'[r].doc.last_scraped = db[reqs[r].id].last_scraped
                /\ reqs'[r].doc.next_scrape_scheduled = db[reqs[r].id].next_scrape_scheduled
       /\ \A p \in ProcIx :
             (procs[p].st \in {"running", "failed"} /\ procs'[p].st \in {"closed", "errored"})
             => IF procs'[p].doc.scraping_status = "completed"
                THEN /\ procs'[p].end = "exit0"
                     /\ procs'[p].doc.last_scraped = now
                     /\ procs'[p].doc.next_scrape_scheduled = now + SevenDays
                ELSE /\ procs'[p].doc.scraping_status = "failed"
                     /\ procs'[p].doc.last_scraped = procs[p].doc.last_scraped
                     /\ procs'[p].doc.next_scrape_scheduled
                           = procs[p].doc.next_scrape_scheduled
       /\ \A i \in Ids :
             (\/ db'[i].last_scraped # db[i].last_scraped
              \/ db'[i].next_scrape_scheduled # db[i].next_scrape_scheduled)
             => \E p \in ProcIx :
                   /\ procs[p].closeSave /\ ~procs'[p].closeSave
                   /\ procs[p].id = i /\ procs[p].end = "exit0"
                   /\ db'[i].scraping_status = "completed"
                   /\ db'[i].last_scraped = procs[p].doc.last_scraped
                   /\ db'[i].next_scrape_scheduled = db'[i].last_scraped + SevenDays]_vars

(* C24 witness: a record completed at time 0 was scraped again at time 1    *)
(* and the scrape failed or was stopped; last_scraped is still 0, and a     *)
(* start was accepted for it after the hour.                                 *)
C24_Witness ==
    \E i \in Ids :
        /\ db[i].last_scraped = 0
        /\ db[i].next_scrape_scheduled = SevenDays
        /\ db[i].scraping_status \in {"failed", "paused"}
        /\ now = 1
        /\ \E r \in StartSlots : reqs[r].res = 200 /\ reqs[r].id = i

(* C25: a callback of a process that was stopped, running while a later     *)
(* process for the same university is registered and running, leaves the    *)
(* registry entry of the later process in place and the record's            *)
(* scraping_status as it is.                                                 *)
C25_LateCallbackOwnRunOnly ==
    [][\A p \in ProcIx : \A q \in ProcIx \ {p} :
          (/\ procs[p].sig /\ procs'[p] # procs[p]
           /\ procs[q].id = procs[p].id
           /\ procs[q].st = "running" /\ procs'[q].st = "running"
           /\ MapHas(activeScrapingProcesses, procs[q].id)
           /\ activeScrapingProcesses[procs[q].id] = q)
          => /\ MapHas(activeScrapingProcesses', procs[q].id)
             /\ activeScrapingProcesses'[procs[q].id] = q
             /\ db'[procs[q].id].scraping_status = db[procs[q].id].scraping_status]_vars

(* C26: in every reachable state every university id the registry holds an  *)
(* entry for belongs to a record whose stored scraping_status is scraping.  *)
C26_RegisteredIsScraping ==
    \A i \in Ids :
        MapHas(activeScrapingProcesses, i) => db[i].scraping_status = "scraping"

(* C27: with every spawned process ending and every pending callback and    *)
(* handler step running while the server is up, a record that an accepted   *)
(* start has put in scraping eventually is completed, failed or paused,     *)
(* whether the save of the exit callback succeeds or is rejected.           *)
AcceptedScraping(i) ==
    /\ up
    /\ db[i].scraping_status = "scraping"
    /\ \E r \in StartSlots :
          reqs[r].op = "start" /\ reqs[r].id = i /\ reqs[r].res = 200

C27_ScrapingEnds ==
    \A i \in Ids :
        AcceptedScraping(i)
            ~> (~up \/ db[i].scraping_status \in {"completed", "failed", "paused"})

(* C28: no step of a start request up to its rejection with 404, 409 or 429 *)
(* (the read of the record, then the guards) changes a record, the registry *)
(* or a process: nothing is spawned and scraping_status, last_scraped,      *)
(* next_scrape_scheduled and scraping_history stay as they were.            *)
Rejections == {404, 409, 429}

C28_RejectedStartNoEffect ==
    [][\A r \in StartSlots :
          (/\ reqs'[r] # reqs[r]
           /\ reqs'[r].op = "start"
           /\ reqs'[r].pc = "guard" \/ reqs'[r].res \in Rejections)
          => /\ db' = db
             /\ activeScrapingProcesses' = activeScrapingProcesses
             /\ procs' = procs]_vars

(* A start rejected with 409 while the process of an accepted start runs    *)
(* under the registry entry of the same university.                          *)
C28_Witness ==
    \E r \in StartSlots, p \in ProcIx :
        /\ reqs[r].op = "start" /\ reqs[r].res = 409
        /\ procs[p].id = reqs[r].id /\ procs[p].st = "running"
        /\ MapHas(activeScrapingProcesses, reqs[r].id)
        /\ activeScrapingProcesses[reqs[r].id] = p
        /\ db[reqs[r].id].scraping_status = "scraping"

(* C29: the guards of a start request pass exactly when the record exists,  *)
(* the registry holds no entry for the id and last_scraped is unset or at   *)
(* least one hour old, whatever scraping_status the record has; so a record *)
(* left in scraping without a registry entry can be started.                *)
C29_GuardsIgnoreStatus ==
    [][\A r \in StartSlots :
          (reqs[r].op = "start" /\ reqs[r].pc = "guard" /\ reqs'[r] # reqs[r])
          => (reqs'[r].pc = "save"
              <=> /\ reqs[r].doc # NoDoc
                  /\ ~MapHas(activeScrapingProcesses, reqs[r].id)
                  /\ \/ reqs[r].doc.last_scraped = NoDate
                     \/ reqs[r].doc.last_scraped <= now - OneHour)]_vars

(* The guards have passed for a record that was in scraping with no         *)
(* registry entry and no process since the server came up.                  *)
C29_Witness ==
    \E r \in StartSlots :
        /\ reqs[r].op = "start" /\ reqs[r].pc = "save"
        /\ \A q \in StartSlots \ {r} : reqs[q].op = "idle"
        /\ \A p \in ProcIx : procs[p].st = "none"
        /\ db[reqs[r].id].scraping_status = "scraping"
        /\ ~MapHas(activeScrapingProcesses, reqs[r].id)

(* C30: no step of a bulk start, from the request to the exit of its        *)
(* process, changes a university record; the registry grows only when the   *)
(* bulk process is spawned, by the one entry under its bulk key, which is   *)
(* no university id, and that entry is gone once the process has closed.    *)
C30_BulkChangesNoRecord ==
    [][/\ db' = db
       /\ \A k \in (DOMAIN activeScrapingProcesses') \ (DOMAIN activeScrapingProcesses) :
             /\ k \notin DOMAIN db
             /\ DOMAIN activeScrapingProcesses' = DOMAIN activeScrapingProcesses \cup {k}
             /\ \E p \in BulkProcIx :
                   /\ procs[p].st = "none" /\ procs'[p].st \in {"running", "failed"}
                   /\ procs'[p].id = k
       /\ \A p \in BulkProcIx :
             (procs'[p].st = "closed" /\ procs[p].st # "closed")
             => ~MapHas(activeScrapingProcesses', procs[p].id)]_vars

(* A bulk start over a collection with records in scraping, completed and   *)
(* pending has been answered with 200 and its process has closed.           *)
C30_Witness ==
    \E r \in BulkSlots :
        /\ reqs[r].op = "bulk" /\ reqs[r].res = 200
        /\ Len(reqs[r].universitiesToScrape) >= 5
        /\ procs[r].st = "closed"
        /\ activeScrapingProcesses = EmptyMap
        /\ \E i \in DOMAIN db : db[i].scraping_status = "scraping"
        /\ \E i \in DOMAIN db : db[i].scraping_status = "completed"

====
